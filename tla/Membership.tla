----------------------------- MODULE Membership -----------------------------
(***************************************************************************)
(* Companies, their members and the invitations that admit them            *)
(* (apps/companies, apps/users).                                           *)
(*                                                                         *)
(* As in Reservations a request is one READ COMMITTED transaction.  Those  *)
(* that decide on rows they did not lock are two steps: the handler, which *)
(* leaves its writes in `open`, and Commit or Abort.  The writes of an     *)
(* administrator are save(update_fields): they change the columns in `set` *)
(* and no other.  update_profile saves the whole row its request began     *)
(* with, and so puts a company, a role and is_active back as they were.    *)
(* A row is found by its address: a save that comes after the row's        *)
(* deletion inserts it again, here also over the row of somebody who has   *)
(* signed up with the address since, which the unique e-mail would refuse. *)
(***************************************************************************)
EXTENDS Integers, FiniteSets

CONSTANTS
    Emails,         \* e-mail addresses; a user row is found by its address
    Companies,
    None,           \* no company (NULL)
    Invites,        \* bound: primary keys of invitations, an interval of naturals
    MaxEmployees,   \* MaxEmployees[c]: max_employees
    MaxOpen,        \* bound: requests handled at the same time
    OfferedRoles,   \* bound: roles that invitations are made for
    Root            \* the superadmin who acts; never a member

VARIABLES
    users,      \* users[e]: the row with this address
    invites,    \* invites[i]: the row of the invitations table
    open,       \* requests that have decided and not yet committed
    uses,       \* history: registrations committed through invites[i]
    readmitted  \* history: users last put in their place by an activation or by a
                \* profile save, not by joining

vars == <<users, invites, open, uses, readmitted>>

-----------------------------------------------------------------------------
(* Types *)

CompanyRoles == {"employee", "company_admin"}
InviteRoles  == CompanyRoles \cup {"staff"}        \* staff: reception, service_manager

\* role "none": no row has this address.  A guest belongs to no company.
UserRow == {r \in [company : Companies \cup {None}, role : InviteRoles \cup {"guest", "none"},
                   active : BOOLEAN] : r.role \in {"guest", "none"} => r.company = None}
NoUser  == [company |-> None, role |-> "none", active |-> FALSE]

\* "none": the key was never used; "deleted": the row went with its inviter.
\* "lapsed" is pending in the table, with expires_at in the past.
InviteRow == [email : Emails \cup {None}, company : Companies \cup {None}, role : InviteRoles,
              status : {"none", "pending", "lapsed", "accepted", "expired", "revoked",
                        "deleted"}]
NoInvite == [email |-> None, company |-> None, role |-> "staff", status |-> "none"]

\* A registration has locked its invitation and the user's row.
Join  == [kind : {"join"}, inv : Invites, user : Emails, insert : BOOLEAN,
          set : [company : Companies \cup {None}, role : InviteRoles, active : {TRUE}]]
\* Columns of a member about to be saved.
Save  == [kind : {"save"}, user : Emails,
          set : [active : BOOLEAN] \cup [role : CompanyRoles]
                \cup [company : {None}, role : {"guest"}, active : {FALSE}]]
\* The whole row of a user, as read when the request began.
Profile == [kind : {"profile"}, user : Emails,
            row : {r \in UserRow : r.role # "none" /\ r.active}]
\* An invitation about to be inserted, one about to be revoked, or both (resend).
Offer == [kind : {"offer"}, old : Invites \cup {None}, new : Invites \cup {None},
          row : InviteRow]

TypeOK ==
    /\ users \in [Emails -> UserRow]
    /\ invites \in [Invites -> InviteRow]
    /\ open \subseteq Join \cup Save \cup Profile \cup Offer
    /\ uses \in [Invites -> Nat]
    /\ readmitted \subseteq Emails

ASSUME MembershipAssumption ==
    /\ MaxEmployees \in [Companies -> Nat]
    /\ MaxOpen \in Nat \ {0}
    /\ OfferedRoles \subseteq InviteRoles
    /\ IsFiniteSet(Emails)
    /\ None \notin Companies /\ None \notin Invites /\ Invites \subseteq Nat
    /\ Root \notin Emails /\ None \notin Emails

-----------------------------------------------------------------------------
(* Reading *)

Known(e)    == users[e].role # "none"

\* Mutant: an accepted invitation still counts as valid.
UsableTwice(i) == invites[i].status \in {"pending", "accepted"}

Live(i)     == invites[i].status \notin {"none", "deleted"}
Usable(i)   == invites[i].status = "pending"
Pending(i)  == invites[i].status \in {"pending", "lapsed"}

\* Mutant: the employee limit is forgotten.
FullNever(c) == FALSE

\* Company.employee_count (superadmins are not in Emails).
Members(c) == {e \in Emails : users[e].company = c /\ users[e].active}
Full(c)    == c # None /\ Cardinality(Members(c)) >= MaxEmployees[c]

Administers(a, c) ==
    \/ a = Root
    \/ a \in Emails /\ users[a].role = "company_admin" /\ users[a].company = c /\ users[a].active

Admins(c) == {e \in Members(c) : users[e].role = "company_admin"}

\* email_blocks_new_company_invitation
MayInvite(e, c) ==
    \/ users[e].role \in {"none", "guest"}
    \/ users[e].company # c /\ ~(users[e].company # None /\ users[e].active)

\* existing_user_cannot_accept_invite_error
MayAccept(e) == users[e].role \in {"none", "guest"} \/ ~users[e].active

-----------------------------------------------------------------------------
(* Transactions *)

Joins  == {t \in open : t.kind = "join"}
Offers == {t \in open : t.kind = "offer"}
Edits  == {t \in open : t.kind = "profile"}

\* Mutant: the registration looks its invitation up without locking it.
InviteFreeAlways(i) == TRUE

\* Mutant: the existing user is read without FOR UPDATE.
UserFreeAlways(e) == TRUE

\* SELECT ... FOR UPDATE or UPDATE of these rows waits for the registrations under way.
InviteFree(i) == \A q \in Joins : q.inv # i
UserFree(e)   == \A q \in Joins : q.user # e \/ q.insert

\* UPDATE of the columns in the domain of `set`.
Columns(row, set) == [f \in DOMAIN row |-> IF f \in DOMAIN set THEN set[f] ELSE row[f]]

\* The constraint users_employee_admin_requires_company.
RoleHasCompany(row) == row.role \in CompanyRoles => row.company # None

Begin(t) ==
    /\ Cardinality(open) < MaxOpen
    /\ t \notin open
    /\ open' = open \cup {t}
    /\ UNCHANGED <<users, invites, uses, readmitted>>

Abort(t) ==
    /\ open' = open \ {t}
    /\ UNCHANGED <<users, invites, uses, readmitted>>

CommitJoin(t) ==
    /\ t \in Joins
    /\ t.insert = ~Known(t.user)         \* the unique e-mail, when another was faster
    /\ users' = [users EXCEPT ![t.user] = t.set]
    /\ invites' = [invites EXCEPT ![t.inv].status = "accepted"]
    /\ uses' = [uses EXCEPT ![t.inv] = @ + 1]
    /\ readmitted' = readmitted \ {t.user}
    /\ open' = open \ {t}

CommitSave(t) ==
    LET row == Columns(users[t.user], t.set)
    IN  /\ t \in open /\ t.kind = "save"
        /\ Known(t.user) /\ UserFree(t.user)
        /\ RoleHasCompany(row)
        /\ users' = [users EXCEPT ![t.user] = row]
        /\ readmitted' = IF ~row.active THEN readmitted \ {t.user}
                         ELSE IF ~users[t.user].active THEN readmitted \cup {t.user}
                         ELSE readmitted
        /\ open' = open \ {t}
        /\ UNCHANGED <<invites, uses>>

\* serializer.save() of update_profile: UPDATE of every column, or INSERT.
CommitProfile(t) ==
    LET was == users[t.user]
    IN  /\ t \in Edits
        /\ UserFree(t.user)
        /\ users' = [users EXCEPT ![t.user] = t.row]
        /\ readmitted' = IF was.active /\ was.company = t.row.company THEN readmitted
                         ELSE readmitted \cup {t.user}
        /\ open' = open \ {t}
        /\ UNCHANGED <<invites, uses>>

CommitOffer(t) ==
    /\ t \in open /\ t.kind = "offer"
    /\ t.old # None => Live(t.old) /\ InviteFree(t.old)
    /\ invites' = [i \in Invites |->
                      IF i = t.new THEN t.row
                      ELSE IF i = t.old THEN [invites[i] EXCEPT !.status = "revoked"]
                      ELSE invites[i]]
    /\ open' = open \ {t}
    /\ UNCHANGED <<users, uses, readmitted>>

-----------------------------------------------------------------------------
(* Invitations *)

\* The next key of the table, drawn by the INSERT.
Fresh   == {i \in Invites : /\ invites[i].status = "none"
                            /\ \A q \in Offers : q.new # i}
Draw(i) == i \in Fresh /\ \A j \in Fresh : i <= j

\* InvitationViewSet.create by `a`, BuildingInvitationViewSet.create for c = None.
Invite(a, e, c, role, i) ==
    LET row == [email |-> e, company |-> c, role |-> role,
                status |-> "pending"]
    IN  /\ Draw(i)
        /\ IF c = None THEN a = Root /\ role = "staff"
           ELSE /\ Administers(a, c) /\ role \in CompanyRoles
                /\ role = "company_admin" => a = Root
                /\ ~Full(c)
                /\ MayInvite(e, c)
        /\ ~\E j \in Invites : Usable(j) /\ invites[j].email = e /\ invites[j].company = c
        /\ Begin([kind |-> "offer", old |-> None, new |-> i, row |-> row])

\* revoke: whatever the status was.
Revoke(a, i) ==
    /\ Live(i)
    /\ Administers(a, invites[i].company)
    /\ Begin([kind |-> "offer", old |-> i, new |-> None, row |-> NoInvite])

\* resend: the old invitation is revoked and a new one takes its place.
Resend(a, i, j) ==
    /\ Live(i) /\ Draw(j)
    /\ Administers(a, invites[i].company)
    /\ Pending(i)
    /\ Begin([kind |-> "offer", old |-> i, new |-> j,
              row |-> [invites[i] EXCEPT !.status = "pending"]])

\* 72 hours have passed.
Lapse(i) ==
    /\ Usable(i)
    /\ invites' = [invites EXCEPT ![i].status = "lapsed"]
    /\ UNCHANGED <<users, open, uses, readmitted>>

\* check_expired_invitations: one UPDATE, which waits for locked rows and rechecks
\* their status.
CheckExpiredInvitations ==
    LET old == {i \in Invites : invites[i].status = "lapsed"}
    IN  /\ old # {}
        /\ \A i \in old : InviteFree(i)
        /\ invites' = [i \in Invites |-> IF i \in old THEN [invites[i] EXCEPT !.status = "expired"]
                                                     ELSE invites[i]]
        /\ UNCHANGED <<users, open, uses, readmitted>>

\* InviteRegistrationSerializer.create, the checks of validate() repeated under the
\* locks of the invitation and of the user's row, if there is one.
Register(i) ==
    LET e == invites[i].email
        c == invites[i].company
    IN  /\ InviteFree(i) /\ Usable(i)
        /\ ~Full(c)
        /\ UserFree(e) /\ MayAccept(e)
        /\ Begin([kind |-> "join", inv |-> i, user |-> e, insert |-> ~Known(e),
                  set |-> [company |-> c, role |-> invites[i].role, active |-> TRUE]])

-----------------------------------------------------------------------------
(* Members; `a` acts, the target is read without a lock *)

Target(a, e, c) == Administers(a, c) /\ Known(e) /\ users[e].company = c

DeactivateMember(a, e, c) ==
    /\ Target(a, e, c) /\ e # a
    /\ Begin([kind |-> "save", user |-> e, set |-> [active |-> FALSE]])

ActivateMember(a, e, c) ==
    /\ Target(a, e, c)
    /\ Begin([kind |-> "save", user |-> e, set |-> [active |-> TRUE]])

\* remove_member: the row stays, as a guest's.
RemoveMember(a, e, c) ==
    /\ Target(a, e, c) /\ e # a
    /\ users[e].role = "company_admin" => a = Root
    /\ Begin([kind |-> "save", user |-> e,
              set |-> [company |-> None, role |-> "guest", active |-> FALSE]])

\* change_member_role: the other administrators are counted, not locked.
ChangeMemberRole(a, e, c, role) ==
    /\ Target(a, e, c) /\ e # a
    /\ users[e].role # "guest" /\ users[e].role # role
    /\ users[e].role = "company_admin" /\ a # Root => Cardinality(Admins(c)) > 1
    /\ Begin([kind |-> "save", user |-> e, set |-> [role |-> role]])

\* update_profile: request.user was read when the token was checked.
UpdateProfile(e) ==
    /\ Known(e) /\ users[e].active
    /\ Begin([kind |-> "profile", user |-> e, row |-> users[e]])

-----------------------------------------------------------------------------
(* Requests that decide on nothing they read *)

\* block_user, unblock_user, delete_account
SetActive(e, flag) ==
    /\ Known(e) /\ UserFree(e)
    /\ users' = [users EXCEPT ![e].active = flag]
    /\ readmitted' = IF ~flag THEN readmitted \ {e}
                     ELSE IF users[e].active THEN readmitted ELSE readmitted \cup {e}
    /\ UNCHANGED <<invites, open, uses>>

\* UserDetailView.destroy; the invitations the user had sent go too (CASCADE).
DeleteUser(e, sent) ==
    /\ Known(e) /\ UserFree(e)
    /\ \A i \in sent : Live(i) /\ InviteFree(i)
    /\ users' = [users EXCEPT ![e] = NoUser]
    /\ invites' = [i \in Invites |-> IF i \in sent THEN [NoInvite EXCEPT !.status = "deleted"]
                                                  ELSE invites[i]]
    /\ readmitted' = readmitted \ {e}
    /\ UNCHANGED <<open, uses>>

\* deactivate and activate of a company: every user of it, by one UPDATE.
SetCompanyActive(c, flag) ==
    LET all == {e \in Emails : users[e].company = c}
    IN  /\ \A e \in all : UserFree(e)
        /\ users' = [e \in Emails |-> IF e \in all THEN [users[e] EXCEPT !.active = flag]
                                                   ELSE users[e]]
        /\ readmitted' = IF flag THEN readmitted \cup {e \in all : ~users[e].active}
                         ELSE readmitted \ all
        /\ UNCHANGED <<invites, open, uses>>

\* A visitor registers without an invitation.
SignUp(e) ==
    /\ ~Known(e)
    /\ users' = [users EXCEPT ![e] = [NoUser EXCEPT !.role = "guest", !.active = TRUE]]
    /\ UNCHANGED <<invites, open, uses, readmitted>>

-----------------------------------------------------------------------------
(* Specification *)

Init ==
    /\ users = [e \in Emails |-> NoUser]
    /\ invites = [i \in Invites |-> NoInvite]
    /\ open = {}
    /\ uses = [i \in Invites |-> 0]
    /\ readmitted = {}

Commit(t) == CommitJoin(t) \/ CommitSave(t) \/ CommitProfile(t) \/ CommitOffer(t)

Inviting ==
    \/ \E a \in Emails \cup {Root}, i \in Invites :
          \/ \E e \in Emails, c \in Companies \cup {None}, role \in OfferedRoles :
                Invite(a, e, c, role, i)
          \/ Revoke(a, i)
          \/ \E j \in Invites : Resend(a, i, j)
    \/ \E i \in Invites : Lapse(i) \/ Register(i)
    \/ CheckExpiredInvitations

Managing ==
    \E e \in Emails :
        \/ \E a \in Emails \cup {Root}, c \in Companies :
              \/ DeactivateMember(a, e, c) \/ ActivateMember(a, e, c) \/ RemoveMember(a, e, c)
              \/ \E role \in CompanyRoles : ChangeMemberRole(a, e, c, role)
        \/ \E flag \in BOOLEAN : SetActive(e, flag)
        \/ \E sent \in SUBSET Invites : DeleteUser(e, sent)
        \/ SignUp(e)
        \/ UpdateProfile(e)

Next ==
    \/ Inviting
    \/ Managing
    \/ \E c \in Companies, flag \in BOOLEAN : SetCompanyActive(c, flag)
    \/ \E t \in open : Commit(t) \/ Abort(t)

Spec == Init /\ [][Next]_vars

-----------------------------------------------------------------------------
(* Properties *)

\* FOR UPDATE: one registration at a time per invitation and per existing user; what
\* it read of them still stands.
JoinsExclusive ==
    /\ \A t \in Joins : /\ Pending(t.inv)
                        /\ t.insert \/ (Known(t.user) /\ MayAccept(t.user))
    /\ \A t, q \in Joins :
          t # q => t.inv # q.inv /\ (t.user # q.user \/ t.insert \/ q.insert)

\* The keys about to be inserted are nobody else's; a row once inserted has an address.
KeysDrawn ==
    /\ \A i \in Invites : Pending(i) => invites[i].email # None
    /\ \A t \in Offers : t.new # None => t.row.email # None
    /\ \A t \in Offers : t.new # None => invites[t.new].status = "none"
    /\ \A t, q \in Offers : t # q /\ t.new # None => t.new # q.new

\* A pending invitation has admitted nobody.
UsedIsSpent ==
    \A i \in Invites : uses[i] <= IF invites[i].status = "none" \/ Pending(i) THEN 0 ELSE 1

\* The inductive invariant behind OneUse.
IInv == TypeOK /\ JoinsExclusive /\ KeysDrawn /\ UsedIsSpent

\* An invitation token admits one person once, however registrations, revocations,
\* resends and the expiry task race.
OneUse == \A i \in Invites : uses[i] <= 1

\* Once an invitation is seen as used, revoked or expired, no registration that was
\* under way gets through with it.
NoLateJoin ==
    [][\A i \in Invites : ~Pending(i) => uses'[i] = uses[i]]_vars

\* An active member of a company does not turn up active elsewhere: only a removal
\* or a deactivation frees an account for the next invitation.  The exception is an
\* update_profile of the member's own, begun where it takes them back to.
NoPoaching ==
    [][\A e \in Emails :
          users[e].active /\ users[e].company # None /\ users'[e].company # users[e].company
              => \/ ~users'[e].active
                 \/ \E t \in Edits \ open' : t.user = e /\ t.row = users'[e]]_vars

\* The requests under way carry what the rows they decided on still say: a registration
\* its invitation's address, company and role, a new invitation its being pending.
RequestsAgree ==
    /\ \A t \in Joins : /\ t.user = invites[t.inv].email
                        /\ t.set.company = invites[t.inv].company
                        /\ t.set.role = invites[t.inv].role
    /\ \A t \in Offers : t.new # None => t.row.status = "pending"

\* Companies seen as a roster: what Roster allows is all that happens to the members.
\* Nobody gets a place but by an invitation that is still open, with just the company
\* and the role it was made for, or by a profile save begun while they had that place.
OpenInvites == {[id |-> i, email |-> invites[i].email, company |-> invites[i].company,
                 role |-> invites[i].role] : i \in {j \in Invites : Pending(j)}}
ClosedKeys == {i \in Invites : invites[i].status # "none" /\ ~Pending(i)}
Drafts == {[email |-> t.user, seat |-> t.row] : t \in Edits}
People == INSTANCE Roster WITH seats <- users, offered <- OpenInvites, retired <- ClosedKeys,
                               drafts <- Drafts
ImplementsRoster == People!Spec

\* The registrations that will add a member to c.
Joining(c) == {t \in Joins : t.set.company = c}

\* The inductive invariant behind Overshoot: each registration under way was let in
\* while c still had room, beside at most MaxOpen - 1 others.
CrowdBounded ==
    /\ IsFiniteSet(open) /\ Cardinality(open) <= MaxOpen
    /\ \A c \in Companies :
          Cardinality(Members(c) \ readmitted) + Cardinality(Joining(c))
              <= MaxEmployees[c] + MaxOpen - 1

\* The employee limit is counted without a lock on the company.  The members it lets
\* in beyond the limit are at most the registrations that run beside each other;
\* everybody else above it was made active again by hand, or put back by a profile
\* save, which no handler counts.
Overshoot ==
    \A c \in Companies :
        Cardinality(Members(c) \ readmitted) <= MaxEmployees[c] + MaxOpen - 1
=============================================================================
