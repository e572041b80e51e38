-------------------------- MODULE GuestPassProofs --------------------------
(***************************************************************************)
(* Theorems about GuestPass, for any users, passes, limits, lengths of the *)
(* windows and number of requests handled at once.                         *)
(***************************************************************************)
EXTENDS GuestPass, FiniteSetTheorems, TLAPS

-----------------------------------------------------------------------------
(* Requests under way *)

\* What is known of a request of each kind.
LEMMA Kinds ==
    ASSUME TypeOK, NEW t \in open
    PROVE  /\ t.kind \in {"insert", "scan", "revoke", "resend"}
           /\ t.key \in Passes
           /\ t.kind = "insert" => t \in Insert /\ t.row \in PassRow
           /\ t.kind = "scan" => t \in Scanning /\ t.row \in PassRow
           /\ t.kind = "revoke" => t \in Revoking
           /\ t.kind = "resend" => t \in Resending /\ t.now \in Tick
BY DEF TypeOK, Insert, Scanning, Revoking, Resending

\* No more passes have a request under way than there are requests.
LEMMA KeysCounted ==
    ASSUME NEW S, IsFiniteSet(S)
    PROVE  /\ IsFiniteSet({t.key : t \in S})
           /\ Cardinality({t.key : t \in S}) <= Cardinality(S)
<1> DEFINE K == {t.key : t \in S}
           f == [t \in S |-> t.key]
<1>1. f \in Surjection(S, K)
  BY DEF Surjection
<1> QED
  BY <1>1, FS_Surjection

\* The scans of a pass are finitely many.
LEMMA ScansFinite ==
    ASSUME NEW p, IsFiniteSet(open)
    PROVE  IsFiniteSet(Scans(p)) /\ Cardinality(Scans(p)) \in Nat
           /\ Cardinality(Scans(p)) <= Cardinality(open)
<1>1. Scans(p) \in SUBSET open
  BY DEF Scans
<1> QED
  BY <1>1, FS_Subset, FS_CardinalityType

\* Any set of passes is finite.
LEMMA PassesFinite ==
    ASSUME GuestPassAssumption, NEW S, S \subseteq Passes
    PROVE  IsFiniteSet(S) /\ Cardinality(S) \in Nat
BY FS_Subset, FS_CardinalityType DEF GuestPassAssumption

-----------------------------------------------------------------------------
(* The limit of active passes *)

\* A step after which a limit has no more candidates than before keeps the bound.
LEMMA FewerAlive ==
    ASSUME GuestPassAssumption, AliveBound,
           \A u \in Guests \cup Employees, e \in Emails : Alive(u, e)' \subseteq Alive(u, e)
    PROVE  AliveBound'
<1> SUFFICES ASSUME NEW u \in Guests \cup Employees, NEW e \in Emails
             PROVE  Cardinality(Alive(u, e)') <= PassLimit - 1 + MaxOpen
  BY DEF AliveBound
<1>1. Alive(u, e) \subseteq Passes
  BY DEF Alive
<1>2. /\ IsFiniteSet(Alive(u, e)) /\ Cardinality(Alive(u, e)) \in Nat
      /\ IsFiniteSet(Alive(u, e)') /\ Cardinality(Alive(u, e)') \in Nat
      /\ Cardinality(Alive(u, e)') <= Cardinality(Alive(u, e))
  BY <1>1, PassesFinite, FS_Subset
<1> QED
  BY <1>2 DEF AliveBound, GuestPassAssumption

\* A pass created under the limit joins those counted and those whose requests are under
\* way.
LEMMA CreatedUnderLimit ==
    ASSUME GuestPassAssumption, TypeOK, IsFiniteSet(open), AliveBound,
           NEW v \in Users, NEW f \in Emails, NEW t,
           t.kind = "insert", t.key \in Passes, t.row.creator = v, t.row.email = f,
           BelowLimit(v, f), UNCHANGED passes, open' = open \cup {t},
           Cardinality(open') <= MaxOpen
    PROVE  AliveBound'
<1> SUFFICES ASSUME NEW u \in Guests \cup Employees, NEW e \in Emails
             PROVE  Cardinality(Alive(u, e)') <= PassLimit - 1 + MaxOpen
  BY DEF AliveBound
<1>1. CASE ~Own(u, e, t.row)
  <2>1. Alive(u, e)' \subseteq Alive(u, e)
    BY <1>1 DEF Alive, Own, Active, Scans
  <2>2. Alive(u, e) \subseteq Passes
    BY DEF Alive
  <2>3. /\ IsFiniteSet(Alive(u, e)) /\ Cardinality(Alive(u, e)) \in Nat
        /\ IsFiniteSet(Alive(u, e)') /\ Cardinality(Alive(u, e)') \in Nat
        /\ Cardinality(Alive(u, e)') <= Cardinality(Alive(u, e))
    BY <2>1, <2>2, PassesFinite, FS_Subset
  <2> QED
    BY <2>3 DEF AliveBound, GuestPassAssumption
<1>2. CASE Own(u, e, t.row)
  <2> DEFINE mine == {p \in Passes : passes[p].creator = v /\ Active(p)}
             met  == {p \in Passes : /\ passes[p].creator \in Employees \cup Staff
                                     /\ passes[p].email = f /\ Active(p)}
             held == {p \in Passes : Own(u, e, passes[p]) /\ Active(p)}
             keys == {q.key : q \in open'}
  <2>1. Cardinality(held) <= PassLimit - 1 /\ IsFiniteSet(held)
    <3>1. /\ IsFiniteSet(mine) /\ Cardinality(mine) \in Nat
          /\ IsFiniteSet(met) /\ Cardinality(met) \in Nat
          /\ IsFiniteSet(held) /\ Cardinality(held) \in Nat
      BY PassesFinite
    <3>2. CASE u \in Guests
      <4>1. v = u /\ held \subseteq mine /\ Cardinality(mine) < PassLimit
        BY <1>2, <3>2 DEF Own, BelowLimit, GuestPassAssumption
      <4>2. Cardinality(held) <= Cardinality(mine)
        BY <3>1, <4>1, FS_Subset
      <4> QED
        BY <3>1, <4>1, <4>2 DEF GuestPassAssumption
    <3>3. CASE u \notin Guests
      <4>1. v \in Employees /\ f = e /\ held \subseteq met /\ Cardinality(met) < PassLimit
        BY <1>2, <3>3 DEF Own, BelowLimit
      <4>2. Cardinality(held) <= Cardinality(met)
        BY <3>1, <4>1, FS_Subset
      <4> QED
        BY <3>1, <4>1, <4>2 DEF GuestPassAssumption
    <3> QED
      BY <3>2, <3>3
  <2>2. IsFiniteSet(open') /\ Cardinality(open') \in Nat
    BY FS_AddElement, FS_CardinalityType
  <2>3. IsFiniteSet(keys) /\ Cardinality(keys) <= MaxOpen /\ Cardinality(keys) \in Nat
    BY <2>2, KeysCounted, FS_CardinalityType DEF GuestPassAssumption
  <2>4. Alive(u, e)' \subseteq held \cup keys
    BY DEF Alive, Active, Own, Scans
  <2>5. /\ IsFiniteSet(held \cup keys)
        /\ Cardinality(held \cup keys)
             = Cardinality(held) + Cardinality(keys) - Cardinality(held \cap keys)
    BY <2>1, <2>3, FS_Union
  <2>6. Cardinality(held \cap keys) \in Nat /\ Cardinality(held) \in Nat
    BY <2>1, FS_Subset, FS_CardinalityType
  <2>7. /\ Cardinality(Alive(u, e)') <= Cardinality(held \cup keys)
        /\ Cardinality(Alive(u, e)') \in Nat
    BY <2>4, <2>5, FS_Subset, FS_CardinalityType
  <2> HIDE DEF held, keys, mine, met
  <2> QED
    BY <2>1, <2>3, <2>5, <2>6, <2>7 DEF GuestPassAssumption
<1> QED
  BY <1>1, <1>2

-----------------------------------------------------------------------------
(* Requests begin *)

\* A request may begin if it is of one of the four kinds, fits the row it is about and, a
\* scan of a single-use pass, finds it unused.
MayBegin(t) ==
    \/ /\ t \in Insert /\ ~Exists(t.key) /\ \A q \in open : q.key # t.key
       /\ t.row.status = "active" /\ t.row.times_used = 0 /\ t.row.window = None
    \/ /\ t \in Scanning /\ Exists(t.key) /\ Active(t.key)
       /\ t.row.creator = passes[t.key].creator /\ t.row.email = passes[t.key].email
       /\ t.row.usage = passes[t.key].usage /\ t.row.status # "none"
       /\ t.row.times_used \in 1 .. (logs[t.key] + 1)
       /\ t.row.usage = "single" => t.row.status = "used" /\ passes[t.key].times_used = 0
    \/ t \in Revoking /\ Exists(t.key)
    \/ t \in Resending /\ Exists(t.key)

\* What a scan changes in the row it has read.
LEMMA ScannedRow ==
    ASSUME NEW row \in PassRow
    PROVE  /\ Scanned(row) \in PassRow
           /\ Scanned(row).times_used = row.times_used + 1
           /\ Scanned(row).status \in {"used", row.status}
           /\ row.usage = "single" => Scanned(row).status = "used"
           /\ Scanned(row).creator = row.creator /\ Scanned(row).email = row.email
           /\ Scanned(row).usage = row.usage
<1> DEFINE status == IF row.usage = "single" THEN "used" ELSE row.status
           n == row.times_used + 1
<1>1. status \in {"used", row.status} /\ (row.usage = "single" => status = "used")
  OBVIOUS
<1>2. status \in {"none", "active", "used", "expired", "revoked"} /\ n \in Nat
  BY <1>1 DEF PassRow
<1>3. Scanned(row) = [row EXCEPT !.times_used = n, !.status = status]
  BY DEF Scanned
<1> HIDE DEF status, n
<1>4. /\ Scanned(row).times_used = n /\ Scanned(row).status = status
      /\ Scanned(row).creator = row.creator /\ Scanned(row).email = row.email
      /\ Scanned(row).usage = row.usage /\ Scanned(row) \in PassRow
  BY <1>2, <1>3 DEF PassRow
<1> QED
  BY <1>1, <1>4 DEF n

\* The scan and the resend meet those conditions.
LEMMA HandlersBegin ==
    ASSUME GuestPassAssumption, IInv, NEW p \in Passes, NEW d \in Desks,
           ValidateQr(p, d) \/ Resend(p, d)
    PROVE  \E t : MayBegin(t) /\ Begin(t) /\ t.kind # "insert"
<1>0. passes[p] \in PassRow /\ clock \in Tick /\ logs[p] \in Nat
  BY DEF IInv, TypeOK
<1>1. CASE ValidateQr(p, d)
  <2> DEFINE t == [kind |-> "scan", key |-> p, by |-> d, row |-> Scanned(passes[p])]
  <2>1. /\ Scanned(passes[p]) \in PassRow
        /\ Scanned(passes[p]).times_used = passes[p].times_used + 1
        /\ Scanned(passes[p]).status \in {"used", passes[p].status}
        /\ passes[p].usage = "single" => Scanned(passes[p]).status = "used"
        /\ Scanned(passes[p]).creator = passes[p].creator
        /\ Scanned(passes[p]).email = passes[p].email
        /\ Scanned(passes[p]).usage = passes[p].usage
    BY <1>0, ScannedRow
  <2>2. Begin(t) /\ t \in Scanning
    BY <1>1, <2>1 DEF ValidateQr, Scanning
  <2>3. passes[p].times_used \in 0 .. logs[p]
    BY <1>0 DEF IInv, UsesAreLogged, PassRow
  <2>4. Active(p) /\ (passes[p].usage = "single" => passes[p].times_used = 0)
    BY <1>1 DEF ValidateQr, Admits
  <2>5. MayBegin(t)
    BY <1>0, <2>1, <2>2, <2>3, <2>4 DEF MayBegin, Exists, Active
  <2> QED
    BY <2>2, <2>5
<1>2. CASE Resend(p, d)
  <2>1. [kind |-> "resend", key |-> p, by |-> d, now |-> clock] \in Resending /\ Exists(p)
    BY <1>0, <1>2 DEF Resend, Resending, Exists, Active
  <2> QED
    BY <1>2, <2>1 DEF Resend, MayBegin
<1> QED
  BY <1>1, <1>2

\* So does a creation, below the limit of its author.
LEMMA CreateBegins ==
    ASSUME GuestPassAssumption, IInv, NEW u \in Users, NEW e \in Emails, NEW p \in Passes,
           NEW usage \in {"single", "multi"}, NEW from \in Tick, NEW until \in Tick,
           Create(u, e, p, usage, from, until)
    PROVE  \E t : /\ MayBegin(t) /\ Begin(t) /\ t.kind = "insert" /\ t.key \in Passes
                  /\ t.row.creator = u /\ t.row.email = e /\ BelowLimit(u, e)
<1> DEFINE r == [creator |-> u, email |-> e, status |-> "active", usage |-> usage,
                 times_used |-> 0, valid_from |-> from, valid_until |-> until,
                 attempts |-> 0, window |-> None]
           t == [kind |-> "insert", key |-> p, row |-> r]
<1>1. from \in Nat /\ until \in Nat
  BY DEF Tick, GuestPassAssumption
<1>2. 0 \in 0 .. ResendLimit
  BY DEF GuestPassAssumption
<1>3. /\ r \in PassRow /\ r.creator = u /\ r.email = e /\ r.status = "active"
      /\ r.times_used = 0 /\ r.window = None
  BY <1>1, <1>2 DEF PassRow
<1>4. Begin(t) /\ BelowLimit(u, e) /\ ~Exists(p) /\ \A q \in open : q.key # p
  BY DEF Create, Draw
<1> HIDE DEF r
<1>5. t \in Insert
  BY <1>3 DEF Insert
<1>6. MayBegin(t)
  BY <1>3, <1>4, <1>5 DEF MayBegin
<1> QED
  BY <1>3, <1>4, <1>6

\* What a beginning leaves to prove is the limit.
LEMMA BeginKeepsIInv ==
    ASSUME GuestPassAssumption, IInv, NEW t, MayBegin(t), Begin(t),
           (TypeOK /\ IsFiniteSet(open') /\ Cardinality(open') <= MaxOpen) => AliveBound'
    PROVE  IInv'
<1>0. open' = open \cup {t} /\ t \notin open /\ UNCHANGED <<passes, logs, clock, resent, windows>>
  BY DEF Begin
<1>1. IsFiniteSet(open) /\ Cardinality(open) \in Nat /\ Cardinality(open) < MaxOpen
  BY FS_CardinalityType DEF IInv, Begin
<1>2. IsFiniteSet(open') /\ Cardinality(open') <= MaxOpen
  <2>1. IsFiniteSet(open \cup {t}) /\ Cardinality(open \cup {t}) = Cardinality(open) + 1
    BY <1>0, <1>1, FS_AddElement
  <2>2. MaxOpen \in Nat
    BY DEF GuestPassAssumption
  <2> QED
    BY <1>0, <1>1, <2>1, <2>2
<1>3. TypeOK'
  BY <1>0 DEF IInv, TypeOK, MayBegin
<1>4. /\ t \in Insert => t.kind = "insert"
      /\ t \in Scanning => t.kind = "scan"
      /\ t \in Revoking => t.kind = "revoke"
      /\ t \in Resending => t.kind = "resend"
  BY DEF Insert, Scanning, Revoking, Resending
<1>5. OpenAgrees'
  <2>1. \A q \in open : q.kind = "insert" => q.key # t.key
    BY <1>4 DEF MayBegin, IInv, OpenAgrees
  <2>2. \A q \in open :
          /\ q.kind = "insert" => /\ ~Exists(q.key) /\ q.row.status = "active"
                                  /\ q.row.times_used = 0 /\ q.row.window = None
                                  /\ \A r \in open : r.key = q.key => r = q
          /\ q.kind # "insert" => Exists(q.key)
          /\ q.kind = "scan" => /\ q.row.creator = passes[q.key].creator
                                /\ q.row.email = passes[q.key].email
                                /\ q.row.usage = passes[q.key].usage
                                /\ q.row.times_used \in 1..(logs[q.key] + 1)
                                /\ q.row.status # "none"
                                /\ q.row.usage = "single" => q.row.status = "used"
    BY DEF IInv, OpenAgrees
  <2>3. /\ t.kind = "insert" => /\ ~Exists(t.key) /\ t.row.status = "active"
                                /\ t.row.times_used = 0 /\ t.row.window = None
                                /\ \A r \in open : r.key # t.key
        /\ t.kind # "insert" => Exists(t.key)
        /\ t.kind = "scan" => /\ t.row.creator = passes[t.key].creator
                              /\ t.row.email = passes[t.key].email
                              /\ t.row.usage = passes[t.key].usage
                              /\ t.row.times_used \in 1..(logs[t.key] + 1)
                              /\ t.row.status # "none"
                              /\ t.row.usage = "single" => t.row.status = "used"
    BY <1>4 DEF MayBegin
  <2> QED
    BY <1>0, <2>1, <2>2, <2>3 DEF OpenAgrees, Exists
<1>6. ScansInFlight'
  <2> SUFFICES ASSUME NEW p \in Passes, passes[p].usage = "single"
               PROVE  logs[p] + Cardinality(Scans(p)') <= MaxOpen
    BY <1>0 DEF IInv, ScansInFlight
  <2>1. logs[p] \in Nat /\ logs[p] + Cardinality(Scans(p)) <= MaxOpen
    BY DEF IInv, ScansInFlight, TypeOK
  <2>2. CASE t \in Scanning /\ t.key = p
    <3>1. logs[p] = 0
      BY <1>4, <2>1, <2>2 DEF MayBegin, IInv, ScansInFlight
    <3>2. Scans(p)' \in SUBSET open'
      BY DEF Scans
    <3>3. Cardinality(Scans(p)') <= Cardinality(open') /\ Cardinality(Scans(p)') \in Nat
          /\ Cardinality(open') \in Nat
      BY <1>2, <3>2, FS_Subset, FS_CardinalityType
    <3> QED
      BY <1>2, <3>1, <3>3 DEF GuestPassAssumption
  <2>3. CASE ~(t \in Scanning /\ t.key = p)
    <3>1. Scans(p)' = Scans(p)
      BY <1>0, <1>4, <2>3 DEF Scans, MayBegin
    <3> QED
      BY <2>1, <3>1
  <2> QED
    BY <2>2, <2>3
<1> QED
  BY <1>0, <1>2, <1>3, <1>5, <1>6 DEF IInv, Unborn, Exists, UsesAreLogged, Allowance

\* A beginning that creates nothing adds no candidate to a limit.
LEMMA OthersKeepIInv ==
    ASSUME GuestPassAssumption, IInv, NEW t, MayBegin(t), Begin(t), t.kind # "insert"
    PROVE  IInv'
<1>1. \A u \in Guests \cup Employees, e \in Emails : Alive(u, e)' \subseteq Alive(u, e)
  <2>1. t.kind = "scan" => Active(t.key)
    BY DEF MayBegin, Revoking, Resending, Insert
  <2>2. open' = open \cup {t} /\ UNCHANGED passes
    BY DEF Begin
  <2> QED
    BY <2>1, <2>2 DEF Alive, Scans, Active, Own
<1>2. AliveBound'
  BY <1>1, FewerAlive DEF IInv
<1> QED
  BY <1>2, BeginKeepsIInv

\* A creation keeps the bound on the limit.
LEMMA CreateKeepsIInv ==
    ASSUME GuestPassAssumption, IInv, NEW u \in Users, NEW e \in Emails, NEW t,
           MayBegin(t), Begin(t), t.kind = "insert", t.key \in Passes,
           t.row.creator = u, t.row.email = e, BelowLimit(u, e)
    PROVE  IInv'
<1>1. UNCHANGED passes /\ open' = open \cup {t}
  BY DEF Begin
<1>2. (TypeOK /\ IsFiniteSet(open') /\ Cardinality(open') <= MaxOpen) => AliveBound'
  BY <1>1, CreatedUnderLimit DEF IInv
<1> QED
  BY <1>2, BeginKeepsIInv

-----------------------------------------------------------------------------
(* Requests end *)

\* What is left of the others when the request t has ended and the rows have only kept
\* their owners, their kinds and their existence.
LEMMA RestAgrees ==
    ASSUME GuestPassAssumption, IInv, NEW t \in open, open' = open \ {t},
           \A p \in Passes : logs'[p] \in Nat /\ logs'[p] >= logs[p],
           \A q \in open \ {t} : /\ Exists(q.key)' <=> Exists(q.key)
                                 /\ q.kind # "insert" =>
                                       /\ passes'[q.key].creator = passes[q.key].creator
                                       /\ passes'[q.key].email = passes[q.key].email
                                       /\ passes'[q.key].usage = passes[q.key].usage
    PROVE  OpenAgrees' /\ IsFiniteSet(open') /\ Cardinality(open') <= MaxOpen
<1>1. IsFiniteSet(open') /\ Cardinality(open') <= MaxOpen
  <2>1. /\ IsFiniteSet(open \ {t}) /\ Cardinality(open \ {t}) = Cardinality(open) - 1
        /\ Cardinality(open) \in Nat /\ Cardinality(open) <= MaxOpen
    BY FS_RemoveElement, FS_CardinalityType DEF IInv
  <2>2. MaxOpen \in Nat
    BY DEF GuestPassAssumption
  <2> QED
    BY <2>1, <2>2
<1>2. OpenAgrees'
  <2> SUFFICES ASSUME NEW q \in open \ {t}
               PROVE  /\ q.kind = "insert" => /\ ~Exists(q.key)' /\ q.row.status = "active"
                                              /\ q.row.times_used = 0 /\ q.row.window = None
                                              /\ \A r \in open' : r.key = q.key => r = q
                      /\ q.kind # "insert" => Exists(q.key)'
                      /\ q.kind = "scan" => /\ q.row.creator = passes'[q.key].creator
                                            /\ q.row.email = passes'[q.key].email
                                            /\ q.row.usage = passes'[q.key].usage
                                            /\ q.row.times_used \in 1..(logs'[q.key] + 1)
                                            /\ q.row.status # "none"
                                            /\ q.row.usage = "single" => q.row.status = "used"
    BY DEF OpenAgrees
  <2>1. q.key \in Passes /\ logs[q.key] \in Nat /\ logs'[q.key] \in Nat
        /\ logs'[q.key] >= logs[q.key]
    BY Kinds DEF IInv, TypeOK
  <2>2. 1 .. (logs[q.key] + 1) \subseteq 1 .. (logs'[q.key] + 1)
    BY <2>1
  <2> QED
    BY <2>2 DEF IInv, OpenAgrees
<1> QED
  BY <1>1, <1>2

\* The row of a new pass.
LEMMA InsertKeepsIInv ==
    ASSUME GuestPassAssumption, IInv, NEW t \in open, CommitInsert(t)
    PROVE  IInv'
<1>0. /\ t.kind = "insert" /\ passes' = [passes EXCEPT ![t.key] = t.row] /\ open' = open \ {t}
      /\ UNCHANGED <<logs, clock, resent, windows>>
  BY DEF CommitInsert
<1>1. /\ t.key \in Passes /\ t.row \in PassRow /\ ~Exists(t.key) /\ t.row.status = "active"
      /\ t.row.times_used = 0 /\ t.row.window = None
      /\ \A q \in open : q.key = t.key => q = t
  BY <1>0, Kinds DEF IInv, OpenAgrees
<1>2. /\ passes \in [Passes -> PassRow] /\ logs \in [Passes -> Nat]
      /\ resent \in [Passes -> Nat] /\ windows \in [Passes -> Nat]
  BY DEF IInv, TypeOK
<1>3. passes'[t.key] = t.row /\ \A p \in Passes \ {t.key} : passes'[p] = passes[p]
  BY <1>0, <1>1, <1>2
<1>4. logs[t.key] = 0 /\ resent[t.key] = 0 /\ windows[t.key] = 0
  BY <1>1 DEF IInv, Unborn
<1>5. TypeOK'
  BY <1>0, <1>1, <1>2 DEF IInv, TypeOK
<1>6. OpenAgrees' /\ IsFiniteSet(open') /\ Cardinality(open') <= MaxOpen
  <2>1. \A q \in open \ {t} : q.key \in Passes \ {t.key}
    BY <1>1, Kinds DEF IInv
  <2> QED
    <3>1. \A p \in Passes : logs'[p] \in Nat /\ logs'[p] >= logs[p]
      BY <1>0, <1>2
    <3>2. \A q \in open \ {t} : passes'[q.key] = passes[q.key]
      BY <1>3, <2>1
    <3>3. \A q \in open \ {t} : Exists(q.key)' <=> Exists(q.key)
      BY <3>2 DEF Exists
    <3> QED
      BY <1>0, <3>1, <3>2, <3>3, RestAgrees
<1>7. ScansInFlight'
  <2>1. Scans(t.key)' = {}
    BY <1>0, <1>1 DEF Scans
  <2>2. \A p \in Passes \ {t.key} : Scans(p)' = Scans(p)
    BY <1>0 DEF Scans
  <2>3. Cardinality({}) = 0 /\ MaxOpen \in Nat
    BY FS_EmptySet DEF GuestPassAssumption
  <2>4. logs'[t.key] + Cardinality(Scans(t.key)') <= MaxOpen /\ ~(logs'[t.key] > 0)
    BY <1>0, <1>4, <2>1, <2>3
  <2>5. \A p \in Passes \ {t.key} : passes'[p].usage = "single" =>
           /\ logs'[p] + Cardinality(Scans(p)') <= MaxOpen
           /\ logs'[p] > 0 => passes'[p].times_used > 0
    BY <1>0, <1>3, <2>2 DEF IInv, ScansInFlight
  <2> QED
    BY <2>4, <2>5 DEF ScansInFlight
<1>8. UsesAreLogged' /\ Unborn' /\ Allowance'
  <2>1. ResendLimit * (windows[t.key] + logs[t.key]) = 0
    BY <1>4 DEF GuestPassAssumption
  <2> QED
    BY <1>0, <1>1, <1>3, <1>4, <2>1 DEF IInv, UsesAreLogged, Unborn, Allowance, Exists
<1>9. AliveBound'
  <2>1. \A u \in Guests \cup Employees, e \in Emails : Alive(u, e)' \subseteq Alive(u, e)
    BY <1>0, <1>1, <1>3 DEF Alive, Scans, Active, Own
  <2> QED
    BY <2>1, FewerAlive DEF IInv
<1> QED
  BY <1>5, <1>6, <1>7, <1>8, <1>9 DEF IInv

\* The entry of a scan, and the row it had read.
LEMMA ScanKeepsIInv ==
    ASSUME GuestPassAssumption, IInv, NEW t \in open, CommitScan(t)
    PROVE  IInv'
<1>0. /\ t.kind = "scan" /\ passes' = [passes EXCEPT ![t.key] = t.row] /\ open' = open \ {t}
      /\ logs' = [logs EXCEPT ![t.key] = @ + 1] /\ UNCHANGED <<clock, resent, windows>>
  BY DEF CommitScan
<1>1. /\ t.key \in Passes /\ t.row \in PassRow /\ Exists(t.key)
      /\ t.row.creator = passes[t.key].creator /\ t.row.email = passes[t.key].email
      /\ t.row.usage = passes[t.key].usage /\ t.row.times_used \in 1..(logs[t.key] + 1)
      /\ t.row.status # "none"
  BY <1>0, Kinds DEF IInv, OpenAgrees
<1>2. /\ passes \in [Passes -> PassRow] /\ logs \in [Passes -> Nat]
      /\ resent \in [Passes -> Nat] /\ windows \in [Passes -> Nat]
  BY DEF IInv, TypeOK
<1>3. /\ passes'[t.key] = t.row /\ \A p \in Passes \ {t.key} : passes'[p] = passes[p]
      /\ logs'[t.key] = logs[t.key] + 1 /\ \A p \in Passes \ {t.key} : logs'[p] = logs[p]
  BY <1>0, <1>1, <1>2
<1>4. \A p \in Passes : /\ Exists(p)' <=> Exists(p)
                        /\ passes'[p].creator = passes[p].creator
                        /\ passes'[p].email = passes[p].email
                        /\ passes'[p].usage = passes[p].usage
  BY <1>1, <1>3 DEF Exists
<1>5. TypeOK'
  BY <1>0, <1>1, <1>2 DEF IInv, TypeOK
<1>6. OpenAgrees' /\ IsFiniteSet(open') /\ Cardinality(open') <= MaxOpen
  <2>1. \A p \in Passes : logs'[p] \in Nat /\ logs'[p] >= logs[p]
    BY <1>2, <1>3
  <2>2. \A q \in open \ {t} : q.key \in Passes
    BY Kinds DEF IInv
  <2> QED
    BY <1>0, <1>4, <2>1, <2>2, RestAgrees
<1>7. ScansInFlight'
  <2>1. Scans(t.key)' = Scans(t.key) \ {t} /\ t \in Scans(t.key)
    BY <1>0 DEF Scans
  <2>2. \A p \in Passes \ {t.key} : Scans(p)' = Scans(p)
    BY <1>0 DEF Scans
  <2>3. /\ Cardinality(Scans(t.key)') = Cardinality(Scans(t.key)) - 1
        /\ Cardinality(Scans(t.key)) \in Nat
    <3>1. IsFiniteSet(Scans(t.key)) /\ Cardinality(Scans(t.key)) \in Nat
      BY ScansFinite DEF IInv
    <3>2. Cardinality(Scans(t.key) \ {t}) = Cardinality(Scans(t.key)) - 1
      BY <2>1, <3>1, FS_RemoveElement
    <3> QED
      BY <2>1, <3>1, <3>2
  <2>4. logs'[t.key] + Cardinality(Scans(t.key)') = logs[t.key] + Cardinality(Scans(t.key))
    BY <1>1, <1>2, <1>3, <2>3
  <2>5. passes'[t.key].times_used > 0
    BY <1>1, <1>2, <1>3
  <2> QED
    BY <1>3, <1>4, <2>2, <2>4, <2>5 DEF IInv, ScansInFlight
<1>8. UsesAreLogged' /\ Unborn'
  BY <1>0, <1>1, <1>2, <1>3, <1>4 DEF IInv, UsesAreLogged, Unborn
<1>9. Allowance'
  <2> DEFINE left == IF t.row.window = None THEN 0 ELSE ResendLimit - t.row.attempts
             had  == IF passes[t.key].window = None THEN 0
                     ELSE ResendLimit - passes[t.key].attempts
             w == windows[t.key]
             l == logs[t.key]
  <2>1. ResendLimit \in Nat /\ w \in Nat /\ l \in Nat /\ resent[t.key] \in Nat
    BY <1>1, <1>2 DEF GuestPassAssumption
  <2>2. left \in 0 .. ResendLimit /\ had \in 0 .. ResendLimit
    BY <1>1, <1>2, <2>1 DEF PassRow
  <2>3. resent[t.key] + had <= ResendLimit * (w + l)
    BY <1>1 DEF IInv, Allowance
  <2> HIDE DEF left, had, w, l
  <2>4. ResendLimit * (w + (l + 1)) = ResendLimit * (w + l) + ResendLimit
        /\ ResendLimit * (w + l) \in Nat
    BY <2>1
  <2>5. resent[t.key] + left <= ResendLimit * (w + (l + 1))
    BY <2>1, <2>2, <2>3, <2>4
  <2>6. resent'[t.key] + (IF passes'[t.key].window = None THEN 0
                          ELSE ResendLimit - passes'[t.key].attempts)
          <= ResendLimit * (windows'[t.key] + logs'[t.key])
    BY <1>0, <1>3, <2>5 DEF left, w, l
  <2> QED
    BY <1>0, <1>3, <2>6 DEF IInv, Allowance
<1>10. AliveBound'
  <2>1. \A u \in Guests \cup Employees, e \in Emails : Alive(u, e)' \subseteq Alive(u, e)
    <3>1. \A u \in Guests \cup Employees, e \in Emails, p \in Passes :
             Own(u, e, passes[p])' <=> Own(u, e, passes[p])
      BY <1>4 DEF Own
    <3>2. \A p \in Passes : Active(p)' \/ Scans(p)' # {} => Active(p) \/ Scans(p) # {}
      BY <1>0, <1>3 DEF Active, Scans
    <3>3. open' \subseteq open
      BY <1>0
    <3> QED
      BY <3>1, <3>2, <3>3 DEF Alive, Own
  <2> QED
    BY <2>1, FewerAlive DEF IInv
<1> QED
  BY <1>5, <1>6, <1>7, <1>8, <1>9, <1>10 DEF IInv

\* Steps that begin nothing, add no use and wake no pass keep the invariant if they keep
\* the allowance of resends.
LEMMA RowsKeepIInv ==
    ASSUME GuestPassAssumption, IInv, TypeOK', Allowance', UNCHANGED logs,
           open' = open \/ \E t \in open : open' = open \ {t},
           \A p \in Passes : /\ Exists(p)' <=> Exists(p)
                             /\ Active(p)' => Active(p)
                             /\ passes'[p].creator = passes[p].creator
                             /\ passes'[p].email = passes[p].email
                             /\ passes'[p].usage = passes[p].usage
                             /\ passes'[p].times_used = passes[p].times_used
                             /\ ~Exists(p) => /\ resent'[p] = resent[p]
                                              /\ windows'[p] = windows[p]
    PROVE  IInv'
<1>1. OpenAgrees' /\ IsFiniteSet(open') /\ Cardinality(open') <= MaxOpen
  <2>1. \A q \in open : q.key \in Passes
    BY Kinds DEF IInv
  <2>2. \A p \in Passes : logs'[p] \in Nat /\ logs'[p] >= logs[p]
    BY DEF IInv, TypeOK
  <2>3. CASE open' = open
    BY <2>1, <2>3 DEF IInv, OpenAgrees
  <2>4. ASSUME NEW t \in open, open' = open \ {t}
        PROVE  OpenAgrees' /\ IsFiniteSet(open') /\ Cardinality(open') <= MaxOpen
    BY <2>1, <2>2, <2>4, RestAgrees
  <2> QED
    BY <2>3, <2>4
<1>2. \A p \in Passes : Scans(p)' \subseteq Scans(p)
  BY DEF Scans
<1>3. ScansInFlight'
  <2> SUFFICES ASSUME NEW p \in Passes, passes'[p].usage = "single"
               PROVE  /\ logs'[p] + Cardinality(Scans(p)') <= MaxOpen
                      /\ logs'[p] > 0 => passes'[p].times_used > 0
    BY DEF ScansInFlight
  <2>1. /\ Cardinality(Scans(p)') <= Cardinality(Scans(p)) /\ Cardinality(Scans(p)') \in Nat
        /\ Cardinality(Scans(p)) \in Nat
    BY <1>2, ScansFinite, FS_Subset, FS_CardinalityType DEF IInv
  <2>2. /\ logs[p] \in Nat /\ MaxOpen \in Nat /\ logs[p] + Cardinality(Scans(p)) <= MaxOpen
        /\ logs[p] > 0 => passes[p].times_used > 0
    BY DEF IInv, TypeOK, ScansInFlight, GuestPassAssumption
  <2> QED
    BY <2>1, <2>2
<1>4. UsesAreLogged' /\ Unborn'
  BY DEF IInv, UsesAreLogged, Unborn
<1>5. AliveBound'
  <2>1. \A u \in Guests \cup Employees, e \in Emails : Alive(u, e)' \subseteq Alive(u, e)
    <3>1. \A u \in Guests \cup Employees, e \in Emails, p \in Passes :
             Own(u, e, passes[p])' <=> Own(u, e, passes[p])
      BY DEF Own
    <3> QED
      BY <1>2, <3>1 DEF Alive, Own
  <2> QED
    BY <2>1, FewerAlive DEF IInv
<1> QED
  BY <1>1, <1>3, <1>4, <1>5 DEF IInv

\* The revocation and the resend, which change neither owner, kind nor use.
LEMMA OtherCommitsKeepIInv ==
    ASSUME GuestPassAssumption, IInv, NEW t \in open, CommitRevoke(t) \/ CommitResend(t)
    PROVE  IInv'
<1>0. /\ passes \in [Passes -> PassRow] /\ logs \in [Passes -> Nat]
      /\ resent \in [Passes -> Nat] /\ windows \in [Passes -> Nat] /\ clock \in Tick
      /\ open \subseteq Insert \cup Scanning \cup Revoking \cup Resending
  BY DEF IInv, TypeOK
<1>1. /\ t.kind \in {"revoke", "resend"}
      /\ t.key \in Passes /\ Exists(t.key) /\ passes[t.key] \in PassRow
      /\ t.kind = "resend" => t.now \in Tick
      /\ open' = open \ {t} /\ UNCHANGED <<logs, clock>>
  BY <1>0, Kinds DEF CommitRevoke, CommitResend, IInv, OpenAgrees
<1>2. CASE CommitRevoke(t)
  <2>1. /\ passes' = [passes EXCEPT ![t.key].status = "revoked"]
        /\ UNCHANGED <<resent, windows>>
    BY <1>2 DEF CommitRevoke
  <2>2. TypeOK'
    BY <1>0, <1>1, <2>1 DEF TypeOK, PassRow
  <2>3. Allowance'
    BY <1>0, <1>1, <2>1 DEF IInv, Allowance, PassRow
  <2>4. \A p \in Passes : /\ Exists(p)' <=> Exists(p)
                          /\ Active(p)' => Active(p)
                          /\ passes'[p].creator = passes[p].creator
                          /\ passes'[p].email = passes[p].email
                          /\ passes'[p].usage = passes[p].usage
                          /\ passes'[p].times_used = passes[p].times_used
    BY <1>0, <1>1, <2>1 DEF Exists, Active, PassRow
  <2> QED
    BY <1>1, <2>1, <2>2, <2>3, <2>4, RowsKeepIInv
<1>3. CASE CommitResend(t)
  <2> DEFINE row   == passes[t.key]
             fresh == row.window = None \/ row.window < t.now - Hour
             used  == IF fresh THEN 0 ELSE row.attempts
             start == IF fresh THEN t.now ELSE row.window
  <2>1. /\ Granted(used)
        /\ passes' = [passes EXCEPT ![t.key].attempts = used + 1,
                                    ![t.key].window = IF fresh THEN t.now ELSE @]
        /\ resent' = [resent EXCEPT ![t.key] = @ + 1]
        /\ windows' = [windows EXCEPT ![t.key] = IF fresh THEN @ + 1 ELSE @]
    BY <1>3 DEF CommitResend
  <2>2. ResendLimit \in Nat /\ row.attempts \in 0 .. ResendLimit /\ row.window \in Tick \cup {None}
    BY <1>1 DEF PassRow, GuestPassAssumption
  <2>3. used \in 0 .. ResendLimit /\ used < ResendLimit /\ used + 1 \in 0 .. ResendLimit
    BY <2>1, <2>2 DEF Granted
  <2>4. start \in Tick /\ start # None /\ t.now \in Tick
    <3>1. t.now \in Tick
      BY <1>1, <1>3 DEF CommitResend
    <3>2. None \notin Tick
      BY DEF Tick, GuestPassAssumption
    <3> QED
      BY <2>2, <3>1, <3>2
  <2>5. passes' = [passes EXCEPT ![t.key].attempts = used + 1, ![t.key].window = start]
    BY <1>0, <1>1, <2>1 DEF PassRow
  <2>6. /\ passes' \in [Passes -> PassRow]
        /\ passes'[t.key].attempts = used + 1 /\ passes'[t.key].window = start
        /\ \A p \in Passes \ {t.key} : passes'[p] = passes[p]
        /\ \A p \in Passes : /\ passes'[p].status = passes[p].status
                             /\ passes'[p].creator = passes[p].creator
                             /\ passes'[p].email = passes[p].email
                             /\ passes'[p].usage = passes[p].usage
                             /\ passes'[p].times_used = passes[p].times_used
    <3> HIDE DEF used, start
    <3> QED
      BY <1>0, <1>1, <2>3, <2>4, <2>5 DEF PassRow
  <2>7. /\ resent' \in [Passes -> Nat] /\ windows' \in [Passes -> Nat]
        /\ resent'[t.key] = resent[t.key] + 1
        /\ windows'[t.key] = IF fresh THEN windows[t.key] + 1 ELSE windows[t.key]
        /\ \A p \in Passes \ {t.key} : resent'[p] = resent[p] /\ windows'[p] = windows[p]
    <3> HIDE DEF fresh
    <3> QED
      BY <1>0, <1>1, <2>1
  <2>8. TypeOK'
    BY <1>0, <1>1, <2>6, <2>7 DEF TypeOK
  <2>9. Allowance'
    <3> DEFINE w == windows[t.key]
               l == logs[t.key]
               n == resent[t.key]
    <3>1. w \in Nat /\ l \in Nat /\ n \in Nat
      BY <1>0, <1>1
    <3>2. n + (IF row.window = None THEN 0 ELSE ResendLimit - row.attempts)
            <= ResendLimit * (w + l)
      BY <1>1 DEF IInv, Allowance
    <3> HIDE DEF w, l, n
    <3>3. /\ ResendLimit * ((w + 1) + l) = ResendLimit * (w + l) + ResendLimit
          /\ ResendLimit * (w + l) \in Nat
      BY <2>2, <3>1
    <3>4. fresh => n + 1 + (ResendLimit - 1) <= ResendLimit * ((w + 1) + l)
      BY <2>2, <3>1, <3>2, <3>3
    <3>5. ~fresh => n + 1 + (ResendLimit - (row.attempts + 1)) <= ResendLimit * (w + l)
      BY <2>2, <3>1, <3>2, <3>3
    <3>6. n + 1 + (ResendLimit - (used + 1))
            <= ResendLimit * ((IF fresh THEN w + 1 ELSE w) + l)
      BY <3>4, <3>5
    <3>7. resent'[t.key] + (IF passes'[t.key].window = None THEN 0
                            ELSE ResendLimit - passes'[t.key].attempts)
            <= ResendLimit * (windows'[t.key] + logs'[t.key])
      BY <1>1, <2>4, <2>6, <2>7, <3>6 DEF w, l, n
    <3> QED
      BY <1>1, <2>6, <2>7, <3>7 DEF IInv, Allowance
  <2>10. \A p \in Passes : /\ Exists(p)' <=> Exists(p)
                           /\ Active(p)' => Active(p)
                           /\ ~Exists(p) => p # t.key
    BY <1>1, <2>6 DEF Exists, Active
  <2> QED
    BY <1>1, <2>6, <2>7, <2>8, <2>9, <2>10, RowsKeepIInv
<1> QED
  BY <1>2, <1>3

\* The task settles passes, the clock moves, a request is given up.
LEMMA BackgroundKeepsIInv ==
    ASSUME GuestPassAssumption, IInv,
           ExpireGuestPasses \/ Advance \/ (\E t \in open : Abort(t)) \/ UNCHANGED vars
    PROVE  IInv'
<1>0. passes \in [Passes -> PassRow] /\ TypeOK
  BY DEF IInv, TypeOK
<1>1. CASE ExpireGuestPasses
  <2>1. \A p \in Passes : /\ passes'[p] \in PassRow
                          /\ Exists(p)' <=> Exists(p)
                          /\ Active(p)' => Active(p)
                          /\ passes'[p].creator = passes[p].creator
                          /\ passes'[p].email = passes[p].email
                          /\ passes'[p].usage = passes[p].usage
                          /\ passes'[p].times_used = passes[p].times_used
                          /\ passes'[p].window = passes[p].window
                          /\ passes'[p].attempts = passes[p].attempts
    BY <1>0, <1>1 DEF ExpireGuestPasses, Lapsed, Active, Exists, PassRow
  <2>2. UNCHANGED <<logs, clock, open, resent, windows>>
    BY <1>1 DEF ExpireGuestPasses
  <2>3. TypeOK'
    BY <1>0, <1>1, <2>1, <2>2 DEF ExpireGuestPasses, TypeOK
  <2>4. Allowance'
    BY <2>1, <2>2 DEF IInv, Allowance
  <2> QED
    BY <2>1, <2>2, <2>3, <2>4, RowsKeepIInv
<1>2. CASE Advance \/ (\E t \in open : Abort(t)) \/ UNCHANGED vars
  <2>1. /\ UNCHANGED <<passes, logs, resent, windows>>
        /\ open' = open \/ \E t \in open : open' = open \ {t}
        /\ open' \subseteq open
    BY <1>2 DEF Advance, Abort, vars
  <2>2. clock' \in Tick
    BY <1>0, <1>2 DEF TypeOK, Tick, Advance, Abort, vars, GuestPassAssumption
  <2>3. TypeOK' /\ Allowance'
    BY <1>0, <2>1, <2>2 DEF IInv, TypeOK, Allowance
  <2>4. \A p \in Passes : (Exists(p)' <=> Exists(p)) /\ (Active(p)' => Active(p))
    BY <2>1 DEF Exists, Active
  <2> QED
    BY <2>1, <2>3, <2>4, RowsKeepIInv
<1> QED
  BY <1>1, <1>2

-----------------------------------------------------------------------------
(* Theorems *)

\* The invariant holds in every reachable state.
THEOREM GuestPassInvariant == Spec => []IInv
<1>0. GuestPassAssumption
  BY GuestPassAssumption
<1>1. Init => IInv
  <2> SUFFICES ASSUME Init PROVE IInv
    OBVIOUS
  <2>1. /\ {PassLimit, ResendLimit} \subseteq Nat \ {0} /\ LastTick \in Nat /\ MaxOpen \in Nat
        /\ PassLimit - 1 + MaxOpen >= 0
    BY <1>0 DEF GuestPassAssumption
  <2>2. NoPass \in PassRow /\ 0 \in Tick
    BY <2>1 DEF NoPass, PassRow, Tick
  <2>3. TypeOK
    BY <2>2 DEF Init, TypeOK
  <2>4. /\ IsFiniteSet({}) /\ Cardinality({}) = 0
        /\ \A p \in Passes : ~Exists(p) /\ ~Active(p) /\ Scans(p) = {}
    BY FS_EmptySet DEF Init, NoPass, Exists, Active, Scans
  <2>5. \A u \in Guests \cup Employees, e \in Emails : Alive(u, e) = {}
    BY <2>4 DEF Init, Alive
  <2>6. Allowance
    BY <2>1 DEF Init, Allowance, NoPass
  <2>7. OpenAgrees /\ Unborn /\ UsesAreLogged
    BY DEF Init, OpenAgrees, Unborn, UsesAreLogged, NoPass
  <2>8. ScansInFlight
    <3>1. \A p \in Passes : Cardinality(Scans(p)) = 0 /\ logs[p] = 0
      BY <2>4 DEF Init
    <3> QED
      BY <2>1, <3>1 DEF ScansInFlight
  <2>9. AliveBound
    BY <2>1, <2>4, <2>5 DEF AliveBound
  <2> QED
    BY <2>1, <2>3, <2>4, <2>6, <2>7, <2>8, <2>9 DEF Init, IInv
<1>2. IInv /\ [Next]_vars => IInv'
  <2> SUFFICES ASSUME IInv, [Next]_vars PROVE IInv'
    OBVIOUS
  <2>1. ASSUME NEW u \in Users, NEW e \in Emails, NEW p \in Passes,
               NEW usage \in {"single", "multi"}, NEW from \in Tick, NEW until \in Tick,
               Create(u, e, p, usage, from, until)
        PROVE  IInv'
    BY <1>0, <2>1, CreateBegins, CreateKeepsIInv
  <2>2. ASSUME NEW p \in Passes, Revoke(p)
        PROVE  IInv'
    <3>1. [kind |-> "revoke", key |-> p] \in Revoking /\ Exists(p)
      BY <2>2 DEF Revoke, Revoking, Exists
    <3> QED
      BY <1>0, <2>2, <3>1, OthersKeepIInv DEF Revoke, MayBegin
  <2>3. ASSUME NEW p \in Passes, NEW d \in Desks, ValidateQr(p, d) \/ Resend(p, d)
        PROVE  IInv'
    BY <1>0, <2>3, HandlersBegin, OthersKeepIInv
  <2>4. ASSUME NEW t \in open, Commit(t)
        PROVE  IInv'
    BY <1>0, <2>4, InsertKeepsIInv, ScanKeepsIInv, OtherCommitsKeepIInv DEF Commit
  <2>5. CASE ExpireGuestPasses \/ Advance \/ (\E t \in open : Abort(t)) \/ UNCHANGED vars
    BY <1>0, <2>5, BackgroundKeepsIInv
  <2> QED
    BY <2>1, <2>2, <2>3, <2>4, <2>5 DEF Next
<1> QED
  BY <1>1, <1>2, PTL DEF Spec
\* However many scans of a single-use pass are sent, only those that run at the same time
\* can all be let in (validate_qr reads the row and saves it later).
THEOREM SingleUseIsBounded == Spec => []SingleUse
<1>1. IInv => SingleUse
  <2> SUFFICES ASSUME IInv, NEW p \in Passes, passes[p].usage = "single"
               PROVE  logs[p] <= MaxOpen
    BY DEF SingleUse
  <2>1. logs[p] \in Nat /\ MaxOpen \in Nat /\ logs[p] + Cardinality(Scans(p)) <= MaxOpen
    BY GuestPassAssumption DEF IInv, TypeOK, ScansInFlight, GuestPassAssumption
  <2>2. Cardinality(Scans(p)) \in Nat
    BY ScansFinite DEF IInv
  <2> QED
    BY <2>1, <2>2
<1> QED
  BY <1>1, GuestPassInvariant, PTL

\* Scans that overwrite each other's count never count more than the log holds.
THEOREM EveryUseIsLogged == Spec => []UsesAreLogged
<1>1. IInv => UsesAreLogged
  BY DEF IInv
<1> QED
  BY <1>1, GuestPassInvariant, PTL

\* The limit of creation is overrun by the requests under way at most, although create
\* counts without a lock and a scan may bring a revoked pass back.
THEOREM ActivePassesAreBounded == Spec => []ActiveOvershoot
<1>1. IInv => ActiveOvershoot
  <2> SUFFICES ASSUME IInv, NEW u \in Guests \cup Employees, NEW e \in Emails
               PROVE  Cardinality({p \in Passes : Own(u, e, passes[p]) /\ Active(p)})
                        <= PassLimit - 1 + MaxOpen
    BY DEF ActiveOvershoot
  <2> DEFINE held == {p \in Passes : Own(u, e, passes[p]) /\ Active(p)}
  <2>1. held \subseteq Alive(u, e) /\ Alive(u, e) \subseteq Passes
    BY DEF Alive
  <2>2. /\ IsFiniteSet(Alive(u, e)) /\ Cardinality(Alive(u, e)) \in Nat
        /\ Cardinality(held) \in Nat /\ Cardinality(held) <= Cardinality(Alive(u, e))
    BY <2>1, GuestPassAssumption, PassesFinite, FS_Subset
  <2>3. Cardinality(Alive(u, e)) <= PassLimit - 1 + MaxOpen /\ PassLimit - 1 + MaxOpen \in Int
    BY GuestPassAssumption DEF IInv, AliveBound, GuestPassAssumption
  <2> HIDE DEF held
  <2>4. Cardinality(held) <= PassLimit - 1 + MaxOpen
    BY <2>2, <2>3
  <2> QED
    BY <2>4 DEF held
<1> QED
  BY <1>1, GuestPassInvariant, PTL

\* The lock of resend keeps the attempts of a window within the limit; a scan that
\* restores the counter it has read adds one window's worth.
THEOREM ResendsAreBounded == Spec => []ResendIsLimited
<1>1. IInv => ResendIsLimited
  <2> SUFFICES ASSUME IInv, NEW p \in Passes
               PROVE  resent[p] <= ResendLimit * (windows[p] + logs[p])
    BY DEF ResendIsLimited
  <2>1. /\ ResendLimit \in Nat /\ resent[p] \in Nat /\ windows[p] \in Nat /\ logs[p] \in Nat
        /\ passes[p] \in PassRow
    BY GuestPassAssumption DEF IInv, TypeOK, GuestPassAssumption
  <2>2. (IF passes[p].window = None THEN 0 ELSE ResendLimit - passes[p].attempts) \in Nat
    BY <2>1 DEF PassRow
  <2>3. ResendLimit * (windows[p] + logs[p]) \in Nat
    BY <2>1
  <2>4. resent[p] + (IF passes[p].window = None THEN 0 ELSE ResendLimit - passes[p].attempts)
          <= ResendLimit * (windows[p] + logs[p])
    BY DEF IInv, Allowance
  <2> QED
    BY <2>1, <2>2, <2>3, <2>4
<1> QED
  BY <1>1, GuestPassInvariant, PTL

\* What no step does to a pass that is over.
LEMMA OverIsKept ==
    ASSUME IInv, [Next]_vars, NEW p \in Passes, Over(p)
    PROVE  Over(p)' /\ logs'[p] = logs[p]
<1>0. /\ passes \in [Passes -> PassRow] /\ logs \in [Passes -> Nat]
      /\ Exists(p) /\ ~Active(p) /\ Scans(p) = {}
  BY DEF IInv, TypeOK, Over
<1>1. \A t \in open : t.key = p => t.kind \notin {"scan", "insert"}
  BY <1>0 DEF Scans, IInv, OpenAgrees
<1>2. SUFFICES /\ passes'[p].status \notin {"none", "active"}
               /\ logs'[p] = logs[p]
               /\ \A t \in open' : t.kind = "scan" => t.key # p
  BY DEF Over, Exists, Active, Scans
<1>3. passes[p].status \notin {"none", "active"}
  BY <1>0 DEF Exists, Active
<1>4. ASSUME NEW u \in Users, NEW e \in Emails, NEW q \in Passes,
             NEW usage \in {"single", "multi"}, NEW from \in Tick, NEW until \in Tick,
             Create(u, e, q, usage, from, until)
      PROVE  /\ passes'[p].status \notin {"none", "active"} /\ logs'[p] = logs[p]
             /\ \A t \in open' : t.kind = "scan" => t.key # p
  BY <1>1, <1>3, <1>4 DEF Create, Begin
<1>5. ASSUME NEW q \in Passes, NEW d, ValidateQr(q, d) \/ Revoke(q) \/ Resend(q, d)
      PROVE  /\ passes'[p].status \notin {"none", "active"} /\ logs'[p] = logs[p]
             /\ \A t \in open' : t.kind = "scan" => t.key # p
  BY <1>0, <1>1, <1>3, <1>5 DEF ValidateQr, Admits, Revoke, Resend, Begin
<1>6. ASSUME NEW t \in open, Commit(t) \/ Abort(t)
      PROVE  /\ passes'[p].status \notin {"none", "active"} /\ logs'[p] = logs[p]
             /\ \A q \in open' : q.kind = "scan" => q.key # p
  <2>1. t.key \in Passes
    BY Kinds DEF IInv
  <2>2. open' \subseteq open
    BY <1>6 DEF Commit, CommitInsert, CommitScan, CommitRevoke, CommitResend, Abort
  <2>3. CASE t.key # p
    BY <1>0, <1>1, <1>3, <1>6, <2>1, <2>2, <2>3
       DEF Commit, CommitInsert, CommitScan, CommitRevoke, CommitResend, Abort
  <2>4. CASE t.key = p
    <3>1. CommitRevoke(t) \/ CommitResend(t) \/ Abort(t)
      BY <1>1, <1>6, <2>4 DEF Commit, CommitInsert, CommitScan
    <3>2. logs'[p] = logs[p] /\ passes'[p].status \in {passes[p].status, "revoked"}
      BY <1>0, <3>1, <2>4 DEF CommitRevoke, CommitResend, Abort, PassRow
    <3> QED
      BY <1>1, <1>3, <2>2, <3>2
  <2> QED
    BY <2>3, <2>4
<1>7. CASE ExpireGuestPasses \/ Advance \/ UNCHANGED vars
  BY <1>0, <1>1, <1>3, <1>7 DEF ExpireGuestPasses, Lapsed, Active, Advance, vars
<1> QED
  BY <1>4, <1>5, <1>6, <1>7 DEF Next

\* A used, expired or revoked pass that nobody is scanning never lets anybody in again.
THEOREM OverPassesStayOver == Spec => OverStaysOver
<1>1. IInv /\ [Next]_vars => [\A p \in Passes : Over(p) => Over(p)' /\ logs'[p] = logs[p]]_vars
  BY OverIsKept
<1> QED
  BY <1>1, GuestPassInvariant, PTL DEF Spec, OverStaysOver
=============================================================================
