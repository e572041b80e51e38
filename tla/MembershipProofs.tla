-------------------------- MODULE MembershipProofs --------------------------
(***************************************************************************)
(* Theorems about Membership, for any e-mail addresses, companies, limits  *)
(* and number of requests.                                                 *)
(***************************************************************************)
EXTENDS Membership, FiniteSetTheorems, TLAPS

-----------------------------------------------------------------------------
(* Rows *)

\* Saving some columns of a user row leaves a user row; only a removal changes the
\* company, and it leaves the account inactive.
LEMMA ColumnsType ==
    ASSUME NEW row \in UserRow, NEW t \in Save
    PROVE  /\ Columns(row, t.set) \in UserRow
           /\ Columns(row, t.set).company # row.company => ~Columns(row, t.set).active
<1>1. CASE t.set \in [active : BOOLEAN]
  BY <1>1 DEF Columns, UserRow, InviteRoles, CompanyRoles
<1>2. CASE t.set \in [role : CompanyRoles]
  BY <1>2 DEF Columns, UserRow, InviteRoles, CompanyRoles
<1>3. CASE t.set \in [company : {None}, role : {"guest"}, active : {FALSE}]
  BY <1>3 DEF Columns, UserRow, InviteRoles, CompanyRoles
<1> QED
  BY <1>1, <1>2, <1>3 DEF Save

\* The kind of an open request tells its fields.
LEMMA OpenTypes ==
    ASSUME TypeOK
    PROVE  /\ Joins \subseteq Join /\ Offers \subseteq Offer
           /\ \A t \in open : t.kind = "save" => t \in Save
           /\ Edits \subseteq Profile
<1>1. /\ \A t \in Join  : t.kind = "join"
      /\ \A t \in Save  : t.kind = "save"
      /\ \A t \in Profile : t.kind = "profile"
      /\ \A t \in Offer : t.kind = "offer"
  BY DEF Join, Save, Profile, Offer
<1> QED
  BY <1>1 DEF TypeOK, Joins, Offers, Edits

-----------------------------------------------------------------------------
(* Requests that have decided *)

\* A request carries what it has read: a registration its invitation, an invitation
\* to be inserted that it is pending.
Carries(t) ==
    /\ t \in Join => /\ t.user = invites[t.inv].email
                     /\ t.set.company = invites[t.inv].company
                     /\ t.set.role = invites[t.inv].role
    /\ t \in Offer /\ t.new # None => t.row.status = "pending"

\* A registration starts under the locks it needs, an invitation with a key of its own.
MayBegin(t) ==
    /\ Carries(t)
    /\ \/ /\ t \in Join
          /\ InviteFree(t.inv) /\ Pending(t.inv)
          /\ t.insert \/ (Known(t.user) /\ MayAccept(t.user))
          /\ UserFree(t.user)
       \/ t \in Save
       \/ t \in Profile /\ t.row = users[t.user]
       \/ /\ t \in Offer
          /\ t.new # None => t.new \in Fresh /\ t.row.email # None

\* Beginning a request preserves the invariant.
LEMMA BeginKeepsIInv ==
    ASSUME IInv, NEW t, MayBegin(t), Begin(t)
    PROVE  IInv'
<1>0. /\ open' = open \cup {t}
      /\ UNCHANGED <<users, invites, uses, readmitted>>
  BY DEF Begin
<1>1. TypeOK'
  BY <1>0 DEF IInv, TypeOK, MayBegin
<1>2. /\ \A q \in Join  : q.kind = "join"
      /\ \A q \in Save  : q.kind = "save"
      /\ \A q \in Profile : q.kind = "profile"
      /\ \A q \in Offer : q.kind = "offer"
  BY DEF Join, Save, Profile, Offer
<1>3. /\ Joins' = IF t \in Join THEN Joins \cup {t} ELSE Joins
      /\ Offers' = IF t \in Offer THEN Offers \cup {t} ELSE Offers
  BY <1>0, <1>2 DEF Joins, Offers, MayBegin
<1>4. JoinsExclusive'
  <2>1. CASE t \in Join
    BY <1>0, <1>2, <1>3, <2>1 DEF IInv, JoinsExclusive, MayBegin, InviteFree, UserFree, Pending,
                                  Known, MayAccept, Save, Offer
  <2>2. CASE t \notin Join
    BY <1>0, <1>3, <2>2 DEF IInv, JoinsExclusive, Pending, Known, MayAccept
  <2> QED
    BY <2>1, <2>2
<1>5. KeysDrawn'
  <2>1. CASE t \in Offer
    BY <1>0, <1>2, <1>3, <2>1 DEF IInv, KeysDrawn, MayBegin, Fresh, Pending, Join, Save
  <2>2. CASE t \notin Offer
    BY <1>0, <1>3, <2>2 DEF IInv, KeysDrawn, Pending
  <2> QED
    BY <2>1, <2>2
<1>6. UsedIsSpent'
  BY <1>0 DEF IInv, UsedIsSpent, Pending
<1> QED
  BY <1>1, <1>4, <1>5, <1>6 DEF IInv

\* A step as the invariant sees it.
Effect ==
    \/ \E t : MayBegin(t) /\ Begin(t)
    \/ \E t \in open : Commit(t) \/ Abort(t)
    \/ \E i \in Invites : Lapse(i)
    \/ CheckExpiredInvitations
    \/ \E e \in Emails : \/ \E flag \in BOOLEAN : SetActive(e, flag)
                         \/ \E sent \in SUBSET Invites : DeleteUser(e, sent)
                         \/ SignUp(e)
    \/ \E c \in Companies, flag \in BOOLEAN : SetCompanyActive(c, flag)
    \/ UNCHANGED vars

\* Every handler that ends in Begin meets the conditions of MayBegin.
LEMMA HandlersBegin == ASSUME MembershipAssumption, IInv, [Next]_vars PROVE Effect
<1>0. /\ \A q \in Join  : q.kind = "join"
      /\ \A q \in Save  : q.kind = "save"
      /\ \A q \in Profile : q.kind = "profile"
      /\ \A q \in Offer : q.kind = "offer"
  BY DEF Join, Save, Profile, Offer
<1>1. ASSUME NEW a, NEW i \in Invites, NEW e \in Emails, NEW c \in Companies \cup {None},
             NEW role \in OfferedRoles, Invite(a, e, c, role, i)
      PROVE  \E t : MayBegin(t) /\ Begin(t)
  <2> DEFINE t == [kind |-> "offer", old |-> None, new |-> i,
                   row |-> [email |-> e, company |-> c, role |-> role, status |-> "pending"]]
  <2>1. t \in Offer
    BY DEF Offer, InviteRow, MembershipAssumption
  <2>2. Begin(t) /\ i \in Fresh
    BY <1>1 DEF Invite, Draw
  <2> QED
    BY <1>0, <2>1, <2>2 DEF MayBegin, Carries, MembershipAssumption
<1>2. ASSUME NEW a, NEW i \in Invites, Revoke(a, i)
      PROVE  \E t : MayBegin(t) /\ Begin(t)
  <2> DEFINE t == [kind |-> "offer", old |-> i, new |-> None, row |-> NoInvite]
  <2>1. t \in Offer
    BY DEF Offer, InviteRow, InviteRoles, CompanyRoles, NoInvite
  <2> QED
    BY <1>0, <1>2, <2>1 DEF MayBegin, Carries, Revoke
<1>3. ASSUME NEW a, NEW i \in Invites, NEW j \in Invites, Resend(a, i, j)
      PROVE  \E t : MayBegin(t) /\ Begin(t)
  <2> DEFINE t == [kind |-> "offer", old |-> i, new |-> j,
                   row |-> [invites[i] EXCEPT !.status = "pending"]]
  <2>1. t \in Offer
    BY DEF Offer, InviteRow, IInv, TypeOK
  <2>2. Begin(t) /\ j \in Fresh /\ t.row.email # None /\ t.row.status = "pending"
    BY <1>3 DEF Resend, Draw, IInv, KeysDrawn, TypeOK, InviteRow
  <2> QED
    BY <1>0, <2>1, <2>2 DEF MayBegin, Carries
<1>4. ASSUME NEW i \in Invites, Register(i)
      PROVE  \E t : MayBegin(t) /\ Begin(t)
  <2> DEFINE e == invites[i].email
             t == [kind |-> "join", inv |-> i, user |-> e, insert |-> ~Known(e),
                   set |-> [company |-> invites[i].company, role |-> invites[i].role,
                            active |-> TRUE]]
  <2>1. /\ Begin(t) /\ InviteFree(i) /\ Usable(i) /\ UserFree(e) /\ MayAccept(e)
        /\ e \in Emails
    BY <1>4 DEF Register, Usable, Pending, IInv, TypeOK, InviteRow, KeysDrawn
  <2>2. t \in Join
    BY <2>1 DEF Join, IInv, TypeOK, InviteRow
  <2> QED
    BY <1>0, <2>1, <2>2 DEF MayBegin, Carries, Usable, Pending
<1>5. ASSUME NEW a, NEW e \in Emails, NEW c \in Companies,
             \/ DeactivateMember(a, e, c) \/ ActivateMember(a, e, c) \/ RemoveMember(a, e, c)
             \/ \E role \in CompanyRoles : ChangeMemberRole(a, e, c, role)
      PROVE  \E t : MayBegin(t) /\ Begin(t)
  <2>1. ASSUME NEW set, Begin([kind |-> "save", user |-> e, set |-> set]),
               set \in [active : BOOLEAN] \cup [role : CompanyRoles]
                       \cup [company : {None}, role : {"guest"}, active : {FALSE}]
        PROVE  \E t : MayBegin(t) /\ Begin(t)
    <3>1. [kind |-> "save", user |-> e, set |-> set] \in Save
      BY <2>1 DEF Save
    <3> QED
      BY <1>0, <2>1, <3>1 DEF MayBegin, Carries
  <2> QED
    BY <1>5, <2>1 DEF DeactivateMember, ActivateMember, RemoveMember, ChangeMemberRole
<1>6. ASSUME NEW e \in Emails, UpdateProfile(e)
      PROVE  \E t : MayBegin(t) /\ Begin(t)
  <2> DEFINE t == [kind |-> "profile", user |-> e, row |-> users[e]]
  <2>1. Begin(t) /\ t \in Profile
    BY <1>6 DEF UpdateProfile, Known, Profile, IInv, TypeOK
  <2> QED
    BY <1>0, <2>1 DEF MayBegin, Carries
<1> QED
  BY <1>1, <1>2, <1>3, <1>4, <1>5, <1>6 DEF Next, Inviting, Managing, Effect

-----------------------------------------------------------------------------
(* What the other steps do *)

\* A registration goes through: its invitation is spent and its user a member.
LEMMA CommitJoinKeepsIInv ==
    ASSUME MembershipAssumption, IInv, NEW t \in open, CommitJoin(t)
    PROVE  IInv'
<1>0. t \in Join /\ Joins \subseteq Join /\ Offers \subseteq Offer
  BY OpenTypes DEF IInv, CommitJoin
<1>1. /\ t.inv \in Invites /\ t.user \in Emails /\ Pending(t.inv)
      /\ t.set \in UserRow
      /\ \A q \in Joins \ {t} : q.inv # t.inv /\ (q.user # t.user \/ q.insert \/ t.insert)
      /\ t.insert = ~Known(t.user)
  BY <1>0 DEF Join, CommitJoin, IInv, JoinsExclusive, UserRow, InviteRoles, CompanyRoles
<1>2. Joins' = Joins \ {t} /\ Offers' = Offers
  BY <1>0 DEF CommitJoin, Joins, Offers, Join
<1>3. TypeOK'
  BY <1>1 DEF IInv, TypeOK, CommitJoin, InviteRow
<1>4. JoinsExclusive'
  <2>1. ASSUME NEW q \in Joins', ~q.insert
        PROVE  q.user # t.user
    BY <1>1, <1>2, <2>1 DEF IInv, JoinsExclusive
  <2>2. \A q \in Joins' : Pending(q.inv)'
    BY <1>0, <1>1, <1>2 DEF IInv, JoinsExclusive, CommitJoin, Pending, Join, TypeOK
  <2>3. \A q \in Joins' : q.insert \/ (Known(q.user)' /\ MayAccept(q.user)')
    BY <1>0, <1>1, <1>2, <2>1 DEF IInv, JoinsExclusive, CommitJoin, Known, MayAccept, Join,
                                  TypeOK
  <2> QED
    BY <1>2, <2>2, <2>3 DEF IInv, JoinsExclusive
<1>5. KeysDrawn'
  BY <1>0, <1>1, <1>2 DEF IInv, KeysDrawn, CommitJoin, TypeOK, InviteRow, Pending, Offer
<1>6. UsedIsSpent'
  BY <1>1 DEF IInv, UsedIsSpent, CommitJoin, TypeOK, InviteRow, Pending
<1> QED
  BY <1>3, <1>4, <1>5, <1>6 DEF IInv

\* Saving a member's columns touches no user a registration has locked.
LEMMA CommitSaveKeepsIInv ==
    ASSUME MembershipAssumption, IInv, NEW t \in open, CommitSave(t)
    PROVE  IInv'
<1>0. t \in Save /\ Joins \subseteq Join /\ Offers \subseteq Offer
  BY OpenTypes DEF IInv, CommitSave
<1>1. /\ t.user \in Emails /\ Columns(users[t.user], t.set) \in UserRow
      /\ t \notin Joins /\ t \notin Offers
  BY <1>0, ColumnsType DEF Save, IInv, TypeOK, Joins, Offers
<1>2. Joins' = Joins /\ Offers' = Offers
  BY <1>1 DEF CommitSave, Joins, Offers
<1>3. TypeOK'
  BY <1>1 DEF IInv, TypeOK, CommitSave
<1>4. JoinsExclusive'
  BY <1>0, <1>1, <1>2 DEF IInv, JoinsExclusive, CommitSave, UserFree, Known, MayAccept, Pending,
                          TypeOK, Join
<1>5. KeysDrawn' /\ UsedIsSpent'
  BY <1>2 DEF IInv, KeysDrawn, UsedIsSpent, CommitSave, Pending
<1> QED
  BY <1>3, <1>4, <1>5 DEF IInv

\* Saving a profile touches no user a registration has locked.
LEMMA CommitProfileKeepsIInv ==
    ASSUME MembershipAssumption, IInv, NEW t \in open, CommitProfile(t)
    PROVE  IInv'
<1>0. t \in Profile /\ Joins \subseteq Join /\ Offers \subseteq Offer
  BY OpenTypes DEF IInv, CommitProfile
<1>1. /\ t.user \in Emails /\ t.row \in UserRow /\ t.kind = "profile"
      /\ t \notin Joins /\ t \notin Offers
  BY <1>0 DEF Profile, Joins, Offers
<1>2. Joins' = Joins /\ Offers' = Offers
  BY <1>1 DEF CommitProfile, Joins, Offers
<1>3. TypeOK'
  BY <1>1 DEF IInv, TypeOK, CommitProfile
<1>4. JoinsExclusive'
  BY <1>0, <1>1, <1>2 DEF IInv, JoinsExclusive, CommitProfile, UserFree, Known, MayAccept, Pending,
                          TypeOK, Join
<1>5. KeysDrawn' /\ UsedIsSpent'
  BY <1>2 DEF IInv, KeysDrawn, UsedIsSpent, CommitProfile, Pending
<1> QED
  BY <1>3, <1>4, <1>5 DEF IInv

\* An invitation is inserted under its own key, or revoked while nobody registers
\* with it.
LEMMA CommitOfferKeepsIInv ==
    ASSUME MembershipAssumption, IInv, NEW t \in open, CommitOffer(t)
    PROVE  IInv'
<1>0. t \in Offer /\ t \in Offers /\ Joins \subseteq Join /\ Offers \subseteq Offer
  BY OpenTypes DEF IInv, CommitOffer, Offers
<1>1. /\ t.new \in Invites \cup {None} /\ t.old \in Invites \cup {None} /\ t.row \in InviteRow
      /\ t \notin Joins
      /\ t.new # None => invites[t.new].status = "none" /\ t.row.email # None
      /\ t.old # None => Live(t.old) /\ InviteFree(t.old)
  BY <1>0 DEF Offer, Joins, IInv, KeysDrawn, CommitOffer
<1>2. Joins' = Joins /\ Offers' = Offers \ {t}
  BY <1>1, <1>0 DEF CommitOffer, Joins, Offers
<1>3. invites' \in [Invites -> InviteRow]
  BY <1>1 DEF CommitOffer, IInv, TypeOK, InviteRow
<1>4. TypeOK'
  BY <1>3 DEF IInv, TypeOK, CommitOffer
<1>5. \A i \in Invites :
         /\ i # t.new /\ i # t.old => invites'[i] = invites[i]
         /\ i = t.new => invites'[i] = t.row
         /\ i = t.old /\ i # t.new => invites'[i] = [invites[i] EXCEPT !.status = "revoked"]
  BY <1>1, MembershipAssumption DEF CommitOffer, MembershipAssumption
<1>6. JoinsExclusive'
  <2>1. \A q \in Joins : q.inv \in Invites /\ Pending(q.inv) /\ q.inv # t.new /\ q.inv # t.old
    BY <1>0, <1>1, MembershipAssumption DEF IInv, JoinsExclusive, InviteFree, Join, Pending,
                                            MembershipAssumption
  <2>2. \A q \in Joins : Pending(q.inv)'
    BY <1>5, <2>1 DEF Pending
  <2> QED
    BY <1>2, <2>2 DEF IInv, JoinsExclusive, CommitOffer, Known, MayAccept
<1>7. KeysDrawn'
  <2>1. \A i \in Invites : Pending(i)' => invites'[i].email # None
    <3>1. SUFFICES ASSUME NEW i \in Invites, Pending(i)'
                   PROVE  invites'[i].email # None
      OBVIOUS
    <3>2. CASE i = t.new
      BY <1>1, <1>5, <3>2, MembershipAssumption DEF MembershipAssumption
    <3>3. CASE i # t.new /\ i = t.old
      <4>0. invites[i] \in InviteRow
        BY DEF IInv, TypeOK
      <4>1. invites'[i].status = "revoked"
        BY <1>5, <3>3, <4>0 DEF InviteRow
      <4> QED
        BY <3>1, <4>1 DEF Pending
    <3>4. CASE i # t.new /\ i # t.old
      BY <1>5, <3>1, <3>4 DEF IInv, KeysDrawn, Pending
    <3> QED
      BY <3>2, <3>3, <3>4
  <2>2. \A q \in Offers' : q.new # None => invites'[q.new].status = "none"
    <3>1. SUFFICES ASSUME NEW q \in Offers, q # t, q.new # None
                   PROVE  invites'[q.new].status = "none"
      BY <1>2
    <3>2. q.new \in Invites /\ invites[q.new].status = "none" /\ q.new # t.new
      BY <1>0, <3>1 DEF IInv, KeysDrawn, Offer
    <3>3. q.new # t.old
      BY <1>1, <3>1, <3>2 DEF Live
    <3> QED
      BY <1>5, <3>2, <3>3
  <2> QED
    BY <1>2, <2>1, <2>2 DEF IInv, KeysDrawn
<1>8. UsedIsSpent'
  <2>1. \A i \in Invites : i = t.new => uses[i] <= 0
    BY <1>1 DEF IInv, UsedIsSpent, TypeOK
  <2> QED
    BY <1>5, <2>1 DEF IInv, UsedIsSpent, CommitOffer, TypeOK, InviteRow, Pending
<1> QED
  BY <1>4, <1>6, <1>7, <1>8 DEF IInv

\* A rollback takes a request away.
LEMMA AbortKeepsIInv ==
    ASSUME IInv, NEW t \in open, Abort(t)
    PROVE  IInv'
<1>1. Joins' \subseteq Joins /\ Offers' \subseteq Offers
  BY DEF Abort, Joins, Offers
<1> QED
  BY <1>1 DEF Abort, IInv, TypeOK, JoinsExclusive, KeysDrawn, UsedIsSpent, Known, MayAccept,
              Pending

\* A step that spends pending invitations, without touching those in use or inserting
\* any, and changes only users no registration has locked.
LEMMA QuietStepKeepsIInv ==
    ASSUME IInv, UNCHANGED <<open, uses>>,
           users' \in [Emails -> UserRow], readmitted' \subseteq Emails,
           invites' \in [Invites -> InviteRow],
           \A e \in Emails : users'[e] = users[e] \/ UserFree(e),
           \A i \in Invites :
              \/ invites'[i] = invites[i]
              \/ /\ InviteFree(i) \/ Pending(i)'
                 /\ invites[i].status # "none" /\ invites'[i].status # "none"
                 /\ Pending(i)' => Pending(i) /\ invites'[i].email = invites[i].email
    PROVE  IInv'
<1>0. Joins' = Joins /\ Offers' = Offers /\ Joins \subseteq Join /\ Offers \subseteq Offer
  BY OpenTypes DEF Joins, Offers, IInv
<1>1. TypeOK'
  BY DEF IInv, TypeOK
<1>2. \A q \in Joins : q.inv \in Invites /\ q.user \in Emails
  BY <1>0 DEF Join
<1>3. \A q \in Joins : Pending(q.inv)'
  BY <1>2 DEF IInv, JoinsExclusive, InviteFree, Pending
<1>4. \A q \in Joins : q.insert \/ (Known(q.user)' /\ MayAccept(q.user)')
  BY <1>2 DEF IInv, JoinsExclusive, UserFree, Known, MayAccept
<1>5. JoinsExclusive'
  BY <1>0, <1>3, <1>4 DEF IInv, JoinsExclusive
<1>6. \A q \in Offers : q.new # None => q.new \in Invites
  BY <1>0 DEF Offer
<1>7. KeysDrawn'
  BY <1>0, <1>6 DEF IInv, KeysDrawn, Pending
<1>8. UsedIsSpent'
  BY DEF IInv, UsedIsSpent, Pending, TypeOK
<1> QED
  BY <1>1, <1>5, <1>7, <1>8 DEF IInv

-----------------------------------------------------------------------------
(* Theorems *)

\* The invariant holds in every reachable state.
THEOREM MembershipInvariant == Spec => []IInv
<1>1. Init => IInv
  <2> SUFFICES ASSUME Init PROVE IInv
    OBVIOUS
  <2>1. TypeOK
    BY MembershipAssumption DEF Init, TypeOK, NoUser, NoInvite, UserRow, InviteRow, InviteRoles,
                                CompanyRoles
  <2> QED
    BY <2>1 DEF Init, IInv, JoinsExclusive, KeysDrawn, UsedIsSpent, Joins, Offers, NoInvite,
                Pending
<1>2. IInv /\ [Next]_vars => IInv'
  <2> SUFFICES ASSUME IInv, [Next]_vars PROVE IInv'
    OBVIOUS
  <2>0. MembershipAssumption
    BY MembershipAssumption
  <2>1. Effect
    BY <2>0, HandlersBegin
  <2>2. ASSUME NEW t \in open, Commit(t) \/ Abort(t)
        PROVE  IInv'
    BY <2>0, <2>2, CommitJoinKeepsIInv, CommitSaveKeepsIInv, CommitProfileKeepsIInv,
       CommitOfferKeepsIInv, AbortKeepsIInv
       DEF Commit
  <2>3. ASSUME NEW i \in Invites, Lapse(i)
        PROVE  IInv'
    <3>1. invites' \in [Invites -> InviteRow]
      BY <2>3 DEF Lapse, IInv, TypeOK, InviteRow
    <3> QED
      BY <2>3, <3>1, QuietStepKeepsIInv DEF Lapse, IInv, TypeOK, Pending, Usable, InviteRow
  <2>4. CASE CheckExpiredInvitations
    <3>1. invites' \in [Invites -> InviteRow]
      BY <2>4 DEF CheckExpiredInvitations, IInv, TypeOK, InviteRow
    <3> QED
      BY <2>4, <3>1, QuietStepKeepsIInv
         DEF CheckExpiredInvitations, IInv, TypeOK, Pending, InviteRow
  <2>5. ASSUME NEW e \in Emails, NEW flag \in BOOLEAN, SetActive(e, flag)
        PROVE  IInv'
    BY <2>5, QuietStepKeepsIInv DEF SetActive, IInv, TypeOK, UserRow
  <2>6. ASSUME NEW e \in Emails, NEW sent \in SUBSET Invites, DeleteUser(e, sent)
        PROVE  IInv'
    <3>1. NoUser \in UserRow /\ [NoInvite EXCEPT !.status = "deleted"] \in InviteRow
      BY DEF NoUser, NoInvite, UserRow, InviteRow, InviteRoles, CompanyRoles
    <3>2. invites' \in [Invites -> InviteRow] /\ users' \in [Emails -> UserRow]
      BY <2>6, <3>1 DEF DeleteUser, IInv, TypeOK
    <3>3. \A i \in Invites :
             \/ invites'[i] = invites[i]
             \/ InviteFree(i) /\ Live(i) /\ invites'[i].status = "deleted"
      BY <2>6 DEF DeleteUser, NoInvite
    <3> QED
      BY <2>6, <3>2, <3>3, QuietStepKeepsIInv DEF DeleteUser, IInv, TypeOK, Pending, Live
  <2>7. ASSUME NEW e \in Emails, SignUp(e)
        PROVE  IInv'
    <3>1. [NoUser EXCEPT !.role = "guest", !.active = TRUE] \in UserRow
      BY DEF NoUser, UserRow, InviteRoles
    <3>2. UserFree(e)
      BY <2>7 DEF SignUp, UserFree, IInv, JoinsExclusive
    <3> QED
      BY <2>7, <3>1, <3>2, QuietStepKeepsIInv DEF SignUp, IInv, TypeOK
  <2>8. ASSUME NEW c \in Companies, NEW flag \in BOOLEAN, SetCompanyActive(c, flag)
        PROVE  IInv'
    <3>1. users' \in [Emails -> UserRow]
      BY <2>8 DEF SetCompanyActive, IInv, TypeOK, UserRow
    <3>2. \A e \in Emails : users'[e] = users[e] \/ UserFree(e)
      BY <2>8 DEF SetCompanyActive
    <3>3. readmitted' \subseteq Emails /\ UNCHANGED <<invites, open, uses>>
      BY <2>8 DEF SetCompanyActive, IInv, TypeOK
    <3> QED
      BY <3>1, <3>2, <3>3, QuietStepKeepsIInv DEF IInv, TypeOK
  <2>9. CASE UNCHANGED vars
    BY <2>9, QuietStepKeepsIInv DEF vars, IInv, TypeOK
  <2> QED
    BY <2>1, <2>2, <2>3, <2>4, <2>5, <2>6, <2>7, <2>8, <2>9, BeginKeepsIInv DEF Effect
<1> QED
  BY <1>1, <1>2, PTL DEF Spec

\* An invitation admits one person (InviteRegistrationSerializer.create).
THEOREM InvitationsAreUsedOnce == Spec => []OneUse
<1>1. IInv => OneUse
  BY DEF IInv, UsedIsSpent, OneUse, TypeOK
<1> QED
  BY <1>1, MembershipInvariant, PTL

\* A registration under way does not outlive its invitation.
THEOREM NobodyJoinsLate == Spec => NoLateJoin
<1>1. IInv /\ [Next]_vars => [\A i \in Invites : ~Pending(i) => uses'[i] = uses[i]]_vars
  <2> SUFFICES ASSUME IInv, [Next]_vars, NEW i \in Invites, ~Pending(i)
               PROVE  uses'[i] = uses[i]
    OBVIOUS
  <2>1. Effect
    BY MembershipAssumption, HandlersBegin
  <2>2. ASSUME NEW t \in open, CommitJoin(t)
        PROVE  uses'[i] = uses[i]
    BY <2>2 DEF CommitJoin, IInv, JoinsExclusive, TypeOK
  <2> QED
    BY <2>1, <2>2 DEF Effect, Commit, CommitSave, CommitProfile, CommitOffer, Abort, Begin,
                      Lapse, vars, CheckExpiredInvitations, SetActive, DeleteUser, SignUp, SetCompanyActive
<1> QED
  BY <1>1, MembershipInvariant, PTL DEF Spec, NoLateJoin

\* An active member changes company only by leaving the first, or by a profile edit of
\* their own that began in the other (update_profile saves the whole row).
THEOREM MembersAreNotPoached == Spec => NoPoaching
<1>1. IInv /\ [Next]_vars =>
        [\A e \in Emails :
            users[e].active /\ users[e].company # None /\ users'[e].company # users[e].company
                => \/ ~users'[e].active
                   \/ \E t \in Edits \ open' : t.user = e /\ t.row = users'[e]]_vars
  <2> SUFFICES ASSUME IInv, [Next]_vars, NEW e \in Emails,
                      users[e].active, users[e].company # None,
                      users'[e].company # users[e].company,
                      ~\E t \in Edits \ open' : t.user = e /\ t.row = users'[e]
               PROVE  ~users'[e].active
    OBVIOUS
  <2>0. users[e] \in UserRow /\ users \in [Emails -> UserRow]
    BY DEF IInv, TypeOK
  <2>1. Effect
    BY MembershipAssumption, HandlersBegin
  <2>2. ASSUME NEW t \in open, CommitJoin(t)
        PROVE  ~users'[e].active
    <3>1. t \in Joins /\ t.user = e
      BY <2>0, <2>2 DEF CommitJoin
    <3>2. t.insert \/ MayAccept(e)
      BY <3>1 DEF IInv, JoinsExclusive
    <3>3. Known(e) /\ ~MayAccept(e)
      BY <2>0 DEF UserRow, Known, MayAccept
    <3> QED
      BY <2>2, <3>1, <3>2, <3>3 DEF CommitJoin
  <2>3. ASSUME NEW t \in open, CommitSave(t)
        PROVE  ~users'[e].active
    <3>1. t \in Save /\ t.user = e /\ users'[e] = Columns(users[e], t.set)
      BY <2>0, <2>3, OpenTypes DEF CommitSave, IInv
    <3> QED
      BY <2>0, <3>1, ColumnsType
  <2>4. ASSUME NEW d \in Emails, NEW sent \in SUBSET Invites, DeleteUser(d, sent)
        PROVE  ~users'[e].active
    BY <2>0, <2>4 DEF DeleteUser, NoUser
  <2>5. ASSUME NEW d \in Emails, NEW flag \in BOOLEAN, SetActive(d, flag)
        PROVE  FALSE
    BY <2>0, <2>5 DEF SetActive, UserRow
  <2>6. ASSUME NEW c \in Companies, NEW flag \in BOOLEAN, SetCompanyActive(c, flag)
        PROVE  FALSE
    BY <2>0, <2>6 DEF SetCompanyActive, UserRow
  <2>7. ASSUME NEW d \in Emails, SignUp(d)
        PROVE  FALSE
    BY <2>0, <2>7 DEF SignUp, Known, NoUser, UserRow
  <2>8. users' # users
    OBVIOUS
  <2>9. ASSUME NEW t \in open, CommitProfile(t)
        PROVE  FALSE
    <3>1. t \in Edits /\ open' = open \ {t} /\ users' = [users EXCEPT ![t.user] = t.row]
      BY <2>9 DEF CommitProfile
    <3>2. t.user = e /\ users'[e] = t.row
      BY <2>0, <3>1
    <3> QED
      BY <3>1, <3>2
  <2> QED
    BY <2>1, <2>2, <2>3, <2>4, <2>5, <2>6, <2>7, <2>8, <2>9
       DEF Effect, Commit, CommitOffer, Abort, Begin, Lapse, vars, CheckExpiredInvitations
<1> QED
  BY <1>1, MembershipInvariant, PTL DEF Spec, NoPoaching

-----------------------------------------------------------------------------
(* The employee limit *)

\* Members that count and registrations under way are finitely many.
LEMMA CrowdFinite ==
    ASSUME MembershipAssumption, CrowdBounded, NEW c
    PROVE  /\ IsFiniteSet(Members(c)) /\ IsFiniteSet(Members(c) \ readmitted)
           /\ IsFiniteSet(Joining(c))
           /\ Cardinality(Members(c)) \in Nat /\ Cardinality(Members(c) \ readmitted) \in Nat
           /\ Cardinality(Joining(c)) \in Nat
           /\ Cardinality(Members(c) \ readmitted) <= Cardinality(Members(c))
           /\ Cardinality(Joining(c)) <= Cardinality(open) /\ Cardinality(open) \in Nat
<1>1. Members(c) \in SUBSET Emails /\ IsFiniteSet(Emails)
  BY DEF Members, MembershipAssumption
<1>2. IsFiniteSet(Members(c))
  BY <1>1, FS_Subset
<1>3. Members(c) \ readmitted \in SUBSET Members(c) /\ Joining(c) \in SUBSET open
  BY DEF Joining, Joins
<1> QED
  BY <1>2, <1>3, FS_Subset, FS_CardinalityType DEF CrowdBounded

\* A step after which no member counts that did not before, and no registration is new.
LEMMA NoNewcomer ==
    ASSUME MembershipAssumption, CrowdBounded, IsFiniteSet(open'),
           Cardinality(open') <= MaxOpen,
           \A c \in Companies : /\ (Members(c) \ readmitted)' \subseteq Members(c) \ readmitted
                                /\ Joining(c)' \subseteq Joining(c)
    PROVE  CrowdBounded'
<1> SUFFICES ASSUME NEW c \in Companies
             PROVE  Cardinality((Members(c) \ readmitted)') + Cardinality(Joining(c)')
                        <= MaxEmployees[c] + MaxOpen - 1
  BY DEF CrowdBounded
<1>1. /\ IsFiniteSet(Members(c) \ readmitted) /\ IsFiniteSet(Joining(c))
      /\ Cardinality(Members(c) \ readmitted) \in Nat /\ Cardinality(Joining(c)) \in Nat
  BY CrowdFinite
<1>2. /\ (Members(c) \ readmitted)' \in SUBSET (Members(c) \ readmitted)
      /\ Joining(c)' \in SUBSET Joining(c)
  OBVIOUS
<1>3. /\ Cardinality((Members(c) \ readmitted)') <= Cardinality(Members(c) \ readmitted)
      /\ IsFiniteSet((Members(c) \ readmitted)')
  BY <1>1, <1>2, FS_Subset
<1>4. Cardinality(Joining(c)') <= Cardinality(Joining(c)) /\ IsFiniteSet(Joining(c)')
  BY <1>1, <1>2, FS_Subset
<1>5. /\ Cardinality((Members(c) \ readmitted)') \in Nat
      /\ Cardinality(Joining(c)') \in Nat
  BY <1>3, <1>4, FS_CardinalityType
<1>6. /\ Cardinality(Members(c) \ readmitted) + Cardinality(Joining(c))
            <= MaxEmployees[c] + MaxOpen - 1
      /\ MaxEmployees[c] \in Nat /\ MaxOpen \in Nat
  BY DEF CrowdBounded, MembershipAssumption
<1> HIDE DEF CrowdBounded
<1> QED
  BY <1>1, <1>3, <1>4, <1>5, <1>6

\* Taking one request away.
LEMMA OneRequestLess ==
    ASSUME MembershipAssumption, CrowdBounded, NEW t \in open, open' = open \ {t}
    PROVE  /\ IsFiniteSet(open') /\ Cardinality(open') <= MaxOpen
           /\ \A c \in Companies : Joining(c)' = Joining(c) \ {t}
<1>1. open' \in SUBSET open /\ IsFiniteSet(open) /\ Cardinality(open) <= MaxOpen
  BY DEF CrowdBounded
<1>2. /\ IsFiniteSet(open') /\ Cardinality(open') <= Cardinality(open)
      /\ Cardinality(open) \in Nat /\ Cardinality(open') \in Nat
  BY <1>1, FS_Subset, FS_CardinalityType
<1>3. \A c \in Companies : Joining(c)' = Joining(c) \ {t}
  BY DEF Joining, Joins
<1> QED
  BY <1>1, <1>2, <1>3 DEF MembershipAssumption

\* One request more, as there was room for it.
LEMMA OneRequestMore ==
    ASSUME MembershipAssumption, CrowdBounded, NEW t, Begin(t)
    PROVE  /\ IsFiniteSet(open') /\ Cardinality(open') <= MaxOpen
           /\ \A c \in Companies : (Members(c) \ readmitted)' = Members(c) \ readmitted
           /\ \A c \in Companies :
                 Joining(c)' = Joining(c) \cup {q \in {t} : q.kind = "join" /\ q.set.company = c}
<1>1. /\ open' = open \cup {t} /\ t \notin open /\ Cardinality(open) < MaxOpen
      /\ users' = users /\ readmitted' = readmitted /\ IsFiniteSet(open)
  BY DEF Begin, CrowdBounded
<1>2. /\ IsFiniteSet(open') /\ Cardinality(open') = Cardinality(open) + 1
      /\ Cardinality(open) \in Nat
  BY <1>1, FS_AddElement, FS_CardinalityType
<1>3. \A c \in Companies : (Members(c) \ readmitted)' = Members(c) \ readmitted
  BY <1>1 DEF Members
<1>4. \A c \in Companies :
         Joining(c)' = Joining(c) \cup {q \in {t} : q.kind = "join" /\ q.set.company = c}
  BY <1>1 DEF Joining, Joins
<1> QED
  BY <1>1, <1>2, <1>3, <1>4 DEF MembershipAssumption

\* A registration begins while its company has room.
LEMMA RegisterKeepsCrowd ==
    ASSUME MembershipAssumption, CrowdBounded, NEW i \in Invites, Register(i)
    PROVE  CrowdBounded'
<1> DEFINE to == invites[i].company
           t == [kind |-> "join", inv |-> i, user |-> invites[i].email,
                 insert |-> ~Known(invites[i].email),
                 set |-> [company |-> to, role |-> invites[i].role, active |-> TRUE]]
<1>1. Begin(t) /\ ~Full(to)
  BY DEF Register
<1>2. t.kind = "join" /\ t.set.company = to
  OBVIOUS
<1> HIDE DEF t
<1>3. /\ IsFiniteSet(open') /\ Cardinality(open') <= MaxOpen
      /\ \A c \in Companies : (Members(c) \ readmitted)' = Members(c) \ readmitted
      /\ \A c \in Companies :
            Joining(c)' = Joining(c) \cup {q \in {t} : q.kind = "join" /\ q.set.company = c}
  BY <1>1, OneRequestMore
<1> SUFFICES ASSUME NEW c \in Companies
             PROVE  Cardinality((Members(c) \ readmitted)') + Cardinality(Joining(c)')
                        <= MaxEmployees[c] + MaxOpen - 1
  BY <1>3 DEF CrowdBounded
<1>4. CASE c # to
  <2>1. Joining(c)' = Joining(c)
    BY <1>2, <1>3, <1>4
  <2> QED
    BY <1>3, <2>1 DEF CrowdBounded
<1>5. CASE c = to
  <2>1. c # None /\ Cardinality(Members(c)) < MaxEmployees[c]
    <3>1. c # None /\ ~(Cardinality(Members(c)) >= MaxEmployees[c])
      BY <1>1, <1>5 DEF Full, MembershipAssumption
    <3>2. Cardinality(Members(c)) \in Nat
      BY CrowdFinite
    <3>3. MaxEmployees[c] \in Nat
      BY DEF MembershipAssumption
    <3> QED
      BY <3>1, <3>2, <3>3
  <2>2. Joining(c)' \in SUBSET open'
    BY DEF Joining, Joins
  <2>3. /\ Cardinality(Joining(c)') <= Cardinality(open')
        /\ Cardinality(Joining(c)') \in Nat /\ Cardinality(open') \in Nat
    BY <1>3, <2>2, FS_Subset, FS_CardinalityType
  <2>4. /\ Cardinality(Members(c) \ readmitted) <= Cardinality(Members(c))
        /\ Cardinality(Members(c) \ readmitted) \in Nat /\ Cardinality(Members(c)) \in Nat
    BY CrowdFinite
  <2>5. MaxEmployees[c] \in Nat /\ MaxOpen \in Nat
    BY DEF MembershipAssumption
  <2>6. /\ Cardinality((Members(c) \ readmitted)') = Cardinality(Members(c) \ readmitted)
        /\ Cardinality(open') <= MaxOpen
    BY <1>3
  <2>7. Cardinality(Members(c) \ readmitted) <= MaxEmployees[c] - 1
    BY <2>1, <2>4, <2>5
  <2>8. Cardinality(Joining(c)') <= MaxOpen
    BY <2>3, <2>5, <2>6
  <2> QED
    BY <2>3, <2>4, <2>5, <2>6, <2>7, <2>8
<1> QED
  BY <1>4, <1>5

\* A registration that goes through turns from one that is joining into a member.
LEMMA JoinKeepsCrowd ==
    ASSUME MembershipAssumption, TypeOK, CrowdBounded, NEW t \in open, CommitJoin(t)
    PROVE  CrowdBounded'
<1>0. t \in Join /\ t \in Joins /\ users \in [Emails -> UserRow]
  BY OpenTypes DEF TypeOK, CommitJoin
<1>1. /\ IsFiniteSet(open') /\ Cardinality(open') <= MaxOpen
      /\ \A c \in Companies : Joining(c)' = Joining(c) \ {t}
  BY OneRequestLess DEF CommitJoin
<1>2. /\ users' = [users EXCEPT ![t.user] = t.set] /\ readmitted' = readmitted \ {t.user}
      /\ t.user \in Emails
  BY <1>0 DEF CommitJoin, Join
<1> SUFFICES ASSUME NEW c \in Companies
             PROVE  Cardinality((Members(c) \ readmitted)') + Cardinality(Joining(c)')
                        <= MaxEmployees[c] + MaxOpen - 1
  BY <1>1 DEF CrowdBounded
<1> DEFINE old == Members(c) \ readmitted
           new == (Members(c) \ readmitted)'
<1>3. /\ IsFiniteSet(old) /\ IsFiniteSet(Joining(c))
      /\ Cardinality(old) \in Nat /\ Cardinality(Joining(c)) \in Nat
      /\ MaxEmployees[c] \in Nat /\ MaxOpen \in Nat
      /\ Cardinality(old) + Cardinality(Joining(c)) <= MaxEmployees[c] + MaxOpen - 1
  BY CrowdFinite DEF CrowdBounded, MembershipAssumption
<1>4. CASE t.set.company = c
  <2>1. new \in SUBSET (old \cup {t.user})
    BY <1>2 DEF Members
  <2>2. /\ IsFiniteSet(old \cup {t.user})
        /\ Cardinality(old \cup {t.user}) <= Cardinality(old) + 1
    <3> HIDE DEF old
    <3>1. /\ IsFiniteSet(old \cup {t.user})
          /\ \/ Cardinality(old \cup {t.user}) = Cardinality(old)
             \/ Cardinality(old \cup {t.user}) = Cardinality(old) + 1
      BY <1>3, FS_AddElement, Zenon
    <3> QED
      BY <1>3, <3>1
  <2>3. /\ Cardinality(new) <= Cardinality(old \cup {t.user}) /\ Cardinality(new) \in Nat
        /\ Cardinality(old \cup {t.user}) \in Nat
    BY <2>1, <2>2, FS_Subset, FS_CardinalityType
  <2>4. t \in Joining(c)
    BY <1>0, <1>4 DEF Joining
  <2>5. Cardinality(Joining(c)') = Cardinality(Joining(c)) - 1
    BY <1>1, <1>3, <2>4, FS_RemoveElement
  <2> HIDE DEF old, new
  <2> QED
    BY <1>3, <2>2, <2>3, <2>5 DEF new
<1>5. CASE t.set.company # c
  <2>1. new \in SUBSET old
    BY <1>0, <1>2, <1>5 DEF Members
  <2>2. Cardinality(new) <= Cardinality(old) /\ Cardinality(new) \in Nat
    BY <1>3, <2>1, FS_Subset, FS_CardinalityType
  <2>3. Joining(c)' = Joining(c)
    BY <1>1, <1>5 DEF Joining
  <2> HIDE DEF old, new
  <2> QED
    BY <1>3, <2>2, <2>3 DEF new
<1> QED
  BY <1>4, <1>5

\* A handler other than Register begins no registration.
LEMMA OthersDoNotJoin ==
    ASSUME NEW a,
           \/ \E e, c, role, i : Invite(a, e, c, role, i)
           \/ \E i, j : Revoke(a, i) \/ Resend(a, i, j)
           \/ \E e, c, role : \/ DeactivateMember(a, e, c) \/ ActivateMember(a, e, c)
                              \/ RemoveMember(a, e, c) \/ ChangeMemberRole(a, e, c, role)
                              \/ UpdateProfile(e)
    PROVE  \E t : Begin(t) /\ t.kind # "join"
<1>1. ASSUME NEW old, NEW new, NEW row,
             Begin([kind |-> "offer", old |-> old, new |-> new, row |-> row])
      PROVE  \E t : Begin(t) /\ t.kind # "join"
  BY <1>1
<1>2. ASSUME NEW e, NEW set, Begin([kind |-> "save", user |-> e, set |-> set])
      PROVE  \E t : Begin(t) /\ t.kind # "join"
  BY <1>2
<1>3. ASSUME NEW e, NEW row, Begin([kind |-> "profile", user |-> e, row |-> row])
      PROVE  \E t : Begin(t) /\ t.kind # "join"
  BY <1>3
<1> QED
  BY <1>1, <1>2, <1>3 DEF Invite, Revoke, Resend, DeactivateMember, ActivateMember, RemoveMember,
                          ChangeMemberRole, UpdateProfile

\* Nobody becomes a member by hand without being counted as readmitted.
LEMMA ByHandIsReadmitted ==
    ASSUME MembershipAssumption, TypeOK,
           \/ \E t \in open : CommitSave(t) \/ CommitProfile(t)
           \/ \E e \in Emails : \/ \E flag \in BOOLEAN : SetActive(e, flag)
                                \/ \E sent \in SUBSET Invites : DeleteUser(e, sent)
                                \/ SignUp(e)
           \/ \E c \in Companies, flag \in BOOLEAN : SetCompanyActive(c, flag),
           NEW c \in Companies
    PROVE  (Members(c) \ readmitted)' \subseteq Members(c) \ readmitted
<1>0. users \in [Emails -> UserRow] /\ \A e \in Emails : users[e] \in UserRow
  BY DEF TypeOK
<1>1. ASSUME NEW t \in open, CommitSave(t)
      PROVE  (Members(c) \ readmitted)' \subseteq Members(c) \ readmitted
  <2> DEFINE row == Columns(users[t.user], t.set)
  <2>1. t \in Save /\ t.user \in Emails
    BY <1>1, OpenTypes DEF CommitSave, Save
  <2>2. row \in UserRow /\ (row.active => row.company = users[t.user].company)
    BY <1>0, <2>1, ColumnsType
  <2>3. /\ users' = [users EXCEPT ![t.user] = row]
        /\ readmitted' = IF ~row.active THEN readmitted \ {t.user}
                         ELSE IF ~users[t.user].active THEN readmitted \cup {t.user}
                         ELSE readmitted
    BY <1>1 DEF CommitSave
  <2> HIDE DEF row
  <2> QED
    BY <1>0, <2>1, <2>2, <2>3 DEF Members
<1>2. ASSUME NEW e \in Emails, NEW flag \in BOOLEAN, SetActive(e, flag)
      PROVE  (Members(c) \ readmitted)' \subseteq Members(c) \ readmitted
  BY <1>0, <1>2 DEF SetActive, Members, UserRow
<1>3. ASSUME NEW e \in Emails, NEW sent, DeleteUser(e, sent)
      PROVE  (Members(c) \ readmitted)' \subseteq Members(c) \ readmitted
  BY <1>0, <1>3 DEF DeleteUser, Members, NoUser
<1>4. ASSUME NEW e \in Emails, SignUp(e)
      PROVE  (Members(c) \ readmitted)' \subseteq Members(c) \ readmitted
  BY <1>0, <1>4 DEF SignUp, Members, NoUser, MembershipAssumption
<1>5. ASSUME NEW d \in Companies, NEW flag \in BOOLEAN, SetCompanyActive(d, flag)
      PROVE  (Members(c) \ readmitted)' \subseteq Members(c) \ readmitted
  BY <1>0, <1>5 DEF SetCompanyActive, Members, UserRow
<1>6. ASSUME NEW t \in open, CommitProfile(t)
      PROVE  (Members(c) \ readmitted)' \subseteq Members(c) \ readmitted
  <2>1. t.user \in Emails /\ t.row \in UserRow
    BY <1>6, OpenTypes DEF CommitProfile, Profile
  <2>2. /\ users' = [users EXCEPT ![t.user] = t.row]
        /\ readmitted' = IF users[t.user].active /\ users[t.user].company = t.row.company
                            THEN readmitted ELSE readmitted \cup {t.user}
    BY <1>6 DEF CommitProfile
  <2> QED
    BY <1>0, <2>1, <2>2 DEF Members
<1> QED
  BY <1>1, <1>2, <1>3, <1>4, <1>5, <1>6

\* A company is over its limit by the members somebody activated or whose profile save
\* put them back, and otherwise by fewer
\* than the registrations handled at once (the check of InviteRegistrationSerializer.create,
\* which locks no row of the company).
THEOREM OvershootIsBounded == Spec => []Overshoot
<1>0. MembershipAssumption
  BY MembershipAssumption
<1>1. Init => CrowdBounded
  <2> SUFFICES ASSUME Init PROVE CrowdBounded
    OBVIOUS
  <2>1. open = {} /\ MaxOpen \in Nat \ {0}
    BY <1>0 DEF Init, MembershipAssumption
  <2>2. IsFiniteSet(open) /\ Cardinality(open) = 0
    BY <2>1, FS_EmptySet
  <2>3. ASSUME NEW c \in Companies
        PROVE  Cardinality(Members(c) \ readmitted) + Cardinality(Joining(c))
                   <= MaxEmployees[c] + MaxOpen - 1
    <3>1. Members(c) \ readmitted = {} /\ Joining(c) = {}
      BY <2>1 DEF Init, Members, Joining, Joins, NoUser
    <3>2. Cardinality(Members(c) \ readmitted) = 0 /\ Cardinality(Joining(c)) = 0
      BY <3>1, FS_EmptySet
    <3>3. MaxEmployees[c] \in Nat
      BY <1>0 DEF MembershipAssumption
    <3> QED
      BY <2>1, <3>2, <3>3
  <2> QED
    BY <2>1, <2>2, <2>3 DEF CrowdBounded
<1>2. IInv /\ CrowdBounded /\ [Next]_vars => CrowdBounded'
  <2> SUFFICES ASSUME IInv, CrowdBounded, [Next]_vars PROVE CrowdBounded'
    OBVIOUS
  <2>0. TypeOK
    BY DEF IInv
  <2>1. ASSUME UNCHANGED <<users, readmitted, open>>
        PROVE  CrowdBounded'
    BY <2>1 DEF CrowdBounded, Members, Joining, Joins
  <2>2. ASSUME NEW t, Begin(t), t.kind # "join"
        PROVE  CrowdBounded'
    <3>1. \A c \in Companies : Joining(c)' \subseteq Joining(c)
      BY <1>0, <2>2, OneRequestMore
    <3>2. /\ IsFiniteSet(open') /\ Cardinality(open') <= MaxOpen
          /\ \A c \in Companies : (Members(c) \ readmitted)' = Members(c) \ readmitted
      BY <1>0, <2>2, OneRequestMore
    <3> QED
      BY <1>0, <3>1, <3>2, NoNewcomer
  <2>3. ASSUME NEW t \in open, CommitJoin(t)
        PROVE  CrowdBounded'
    BY <1>0, <2>0, <2>3, JoinKeepsCrowd
  <2>4. ASSUME NEW t \in open, CommitSave(t) \/ CommitProfile(t) \/ CommitOffer(t) \/ Abort(t)
        PROVE  CrowdBounded'
    <3>1. open' = open \ {t}
      BY <2>4 DEF CommitSave, CommitProfile, CommitOffer, Abort
    <3>2. \A c \in Companies : (Members(c) \ readmitted)' \subseteq Members(c) \ readmitted
      <4>1. CASE CommitSave(t) \/ CommitProfile(t)
        BY <1>0, <2>0, <4>1, ByHandIsReadmitted
      <4>2. CASE CommitOffer(t) \/ Abort(t)
        BY <4>2 DEF CommitOffer, Abort, Members
      <4> QED
        BY <2>4, <4>1, <4>2
    <3>3. \A c \in Companies : Joining(c)' \subseteq Joining(c)
      BY <3>1 DEF Joining, Joins
    <3>4. IsFiniteSet(open') /\ Cardinality(open') <= MaxOpen
      BY <1>0, <3>1, OneRequestLess
    <3> QED
      BY <1>0, <3>2, <3>3, <3>4, NoNewcomer
  <2>5. ASSUME \/ \E e \in Emails : \/ \E flag \in BOOLEAN : SetActive(e, flag)
                                    \/ \E sent \in SUBSET Invites : DeleteUser(e, sent)
                                    \/ SignUp(e)
               \/ \E c \in Companies, flag \in BOOLEAN : SetCompanyActive(c, flag)
        PROVE  CrowdBounded'
    <3>1. open' = open
      BY <2>5 DEF SetActive, DeleteUser, SignUp, SetCompanyActive
    <3>2. \A c \in Companies : (Members(c) \ readmitted)' \subseteq Members(c) \ readmitted
      BY <1>0, <2>0, <2>5, ByHandIsReadmitted
    <3>3. \A c \in Companies : Joining(c)' \subseteq Joining(c)
      BY <3>1 DEF Joining, Joins
    <3> QED
      BY <1>0, <3>1, <3>2, <3>3, NoNewcomer DEF CrowdBounded
  <2>6. CASE Inviting
    <3>1. ASSUME NEW i \in Invites, Register(i) PROVE CrowdBounded'
      BY <1>0, <3>1, RegisterKeepsCrowd
    <3>2. ASSUME NEW i \in Invites, Lapse(i) PROVE CrowdBounded'
      BY <2>1, <3>2 DEF Lapse
    <3>3. CASE CheckExpiredInvitations
      BY <2>1, <3>3 DEF CheckExpiredInvitations
    <3>4. ASSUME NEW a, \/ \E e, c, role, i : Invite(a, e, c, role, i)
                        \/ \E i, j : Revoke(a, i) \/ Resend(a, i, j)
          PROVE  CrowdBounded'
      BY <2>2, <3>4, OthersDoNotJoin
    <3> QED
      BY <2>6, <3>1, <3>2, <3>3, <3>4 DEF Inviting
  <2>7. CASE Managing
    <3>1. ASSUME NEW a, \E e, c, role : \/ DeactivateMember(a, e, c) \/ ActivateMember(a, e, c)
                                        \/ RemoveMember(a, e, c) \/ ChangeMemberRole(a, e, c, role)
                                        \/ UpdateProfile(e)
          PROVE  CrowdBounded'
      BY <2>2, <3>1, OthersDoNotJoin
    <3> QED
      BY <2>5, <2>7, <3>1 DEF Managing
  <2>8. CASE UNCHANGED vars
    BY <2>1, <2>8 DEF vars
  <2> QED
    BY <2>3, <2>4, <2>5, <2>6, <2>7, <2>8 DEF Next, Commit
<1>3. CrowdBounded => Overshoot
  <2> SUFFICES ASSUME CrowdBounded, NEW c \in Companies
               PROVE  Cardinality(Members(c) \ readmitted) <= MaxEmployees[c] + MaxOpen - 1
    BY DEF Overshoot
  <2>1. /\ Cardinality(Members(c) \ readmitted) \in Nat /\ Cardinality(Joining(c)) \in Nat
        /\ MaxEmployees[c] \in Nat /\ MaxOpen \in Nat
        /\ Cardinality(Members(c) \ readmitted) + Cardinality(Joining(c))
               <= MaxEmployees[c] + MaxOpen - 1
    BY <1>0, CrowdFinite DEF CrowdBounded, MembershipAssumption
  <2> QED
    BY <2>1
<1> QED
  BY <1>1, <1>2, <1>3, MembershipInvariant, PTL DEF Spec
-----------------------------------------------------------------------------
(* The roster *)

\* An invitation as Roster sees it.
Offered(i) == [id |-> i, email |-> invites[i].email, company |-> invites[i].company,
               role |-> invites[i].role]

\* What a step may do to the invitations: a key never used is inserted pending, and a row
\* that is not pending any more stays so; a pending one keeps what it offers.
InvitesAge ==
    \A i \in Invites :
        /\ Pending(i) /\ Pending(i)' => Offered(i)' = Offered(i)
        /\ invites[i].status # "none" => /\ invites'[i].status # "none"
                                         /\ Pending(i)' => Pending(i)
        /\ invites[i].status = "none" => invites'[i].status = "none" \/ Pending(i)'

\* The invitations that a step opens and closes; those it closes are remembered.
LEMMA OffersOpenAndClose ==
    ASSUME InvitesAge
    PROVE  /\ People!Closed = {Offered(i) : i \in {j \in Invites : Pending(j) /\ ~Pending(j)'}}
           /\ People!Opened = {Offered(i)' : i \in {j \in Invites : ~Pending(j) /\ Pending(j)'}}
           /\ People!Retires
<1>1. /\ OpenInvites  = {Offered(i) : i \in {j \in Invites : Pending(j)}}
      /\ OpenInvites' = {Offered(i)' : i \in {j \in Invites : Pending(j)'}}
  BY DEF OpenInvites, Offered
<1>2. \A i \in Invites : Offered(i).id = i /\ Offered(i)'.id = i
  BY DEF Offered
<1>3. \A i \in Invites : Pending(i) /\ Pending(i)' => Offered(i)' = Offered(i)
  BY DEF InvitesAge
<1> HIDE DEF Offered
<1>4. People!Closed = {Offered(i) : i \in {j \in Invites : Pending(j) /\ ~Pending(j)'}}
  BY <1>1, <1>2, <1>3 DEF People!Closed
<1>5. People!Opened = {Offered(i)' : i \in {j \in Invites : ~Pending(j) /\ Pending(j)'}}
  BY <1>1, <1>2, <1>3 DEF People!Opened
<1>6. {o.id : o \in People!Closed} = {j \in Invites : Pending(j) /\ ~Pending(j)'}
  BY <1>2, <1>4
<1>7. ClosedKeys' = ClosedKeys \cup {j \in Invites : Pending(j) /\ ~Pending(j)'}
  BY DEF ClosedKeys, InvitesAge, Pending
<1> QED
  BY <1>4, <1>5, <1>6, <1>7 DEF People!Retires

\* An invitation that is committed closes the one it replaces and opens under a key
\* never used.
LEMMA CommitOfferInvites ==
    ASSUME MembershipAssumption, IInv, RequestsAgree, NEW t \in open, CommitOffer(t)
    PROVE  InvitesAge /\ RequestsAgree' /\ People!Invite
<1>0. t \in Offer /\ t \in Offers /\ Joins \subseteq Join /\ Offers \subseteq Offer
  BY OpenTypes DEF IInv, CommitOffer, Offers
<1>1. /\ t.new # None => invites[t.new].status = "none" /\ t.row.status = "pending"
      /\ t.old # None => Live(t.old)
      /\ t.new \in Invites \cup {None} /\ t.old \in Invites \cup {None} /\ None \notin Invites
      /\ \A i \in Invites : invites[i] \in InviteRow
  BY <1>0 DEF Offer, IInv, TypeOK, KeysDrawn, RequestsAgree, CommitOffer, MembershipAssumption
<1>2. \A i \in Invites :
         /\ i # t.new /\ i # t.old => invites'[i] = invites[i]
         /\ i = t.new => invites'[i].status = "pending"
         /\ i # t.new /\ i = t.old => /\ invites'[i].status = "revoked"
                                      /\ invites'[i].email = invites[i].email
                                      /\ invites'[i].company = invites[i].company
                                      /\ invites'[i].role = invites[i].role
  BY <1>1 DEF CommitOffer, InviteRow
<1>3. InvitesAge
  BY <1>1, <1>2 DEF InvitesAge, Offered, Pending, Live
<1>4. RequestsAgree'
  <2>1. Joins' \subseteq Joins /\ Offers' \subseteq Offers
    BY DEF CommitOffer, Joins, Offers
  <2>2. \A q \in Joins : q.inv \in Invites /\ q.inv # t.new
    BY <1>0, <1>1 DEF Join, IInv, JoinsExclusive, Pending
  <2> QED
    BY <1>2, <2>1, <2>2 DEF RequestsAgree
<1>5. /\ People!Opened = {Offered(i)' : i \in {j \in Invites : ~Pending(j) /\ Pending(j)'}}
      /\ People!Retires
  BY <1>3, OffersOpenAndClose
<1>6. \A i \in Invites : ~Pending(i) /\ Pending(i)' => i = t.new
  BY <1>2 DEF Pending
<1>7. \A n \in People!Opened : t.new \in Invites /\ n = Offered(t.new)' /\ n.id = t.new
  BY <1>5, <1>6 DEF Offered
<1>8. t.new \in Invites => t.new \notin ClosedKeys /\ \A o \in OpenInvites : o.id # t.new
  BY <1>1 DEF ClosedKeys, OpenInvites, Pending
<1>9. users' = users /\ Drafts' = Drafts
  BY <1>0 DEF CommitOffer, Drafts, Edits, Offers
<1> HIDE DEF Offered
<1> QED
  BY <1>3, <1>4, <1>5, <1>7, <1>8, <1>9 DEF People!Invite

\* A registration that goes through takes the place its invitation offers.
LEMMA CommitJoinAdmits ==
    ASSUME MembershipAssumption, IInv, RequestsAgree, NEW t \in open, CommitJoin(t)
    PROVE  InvitesAge /\ RequestsAgree' /\ People!Admit
<1>0. t \in Join /\ t \in Joins /\ Joins \subseteq Join /\ Offers \subseteq Offer
  BY OpenTypes DEF IInv, CommitJoin
<1>1. /\ t.inv \in Invites /\ Pending(t.inv) /\ t.user \in Emails
      /\ t.user = invites[t.inv].email
      /\ t.set = [company |-> invites[t.inv].company, role |-> invites[t.inv].role,
                  active |-> TRUE]
      /\ \A i \in Invites : invites[i] \in InviteRow
  BY <1>0 DEF Join, IInv, TypeOK, JoinsExclusive, RequestsAgree
<1>2. \A i \in Invites :
         /\ invites'[i].email = invites[i].email /\ invites'[i].company = invites[i].company
         /\ invites'[i].role = invites[i].role
         /\ i # t.inv => invites'[i] = invites[i]
         /\ i = t.inv => invites'[i].status = "accepted"
  BY <1>1 DEF CommitJoin, IInv, TypeOK, InviteRow
<1>3. InvitesAge
  BY <1>1, <1>2 DEF InvitesAge, Offered, Pending
<1>4. RequestsAgree'
  <2>1. Joins' \subseteq Joins /\ Offers' \subseteq Offers
    BY DEF CommitJoin, Joins, Offers
  <2>2. \A q \in Joins : q.inv \in Invites
    BY <1>0 DEF Join
  <2> QED
    BY <1>2, <2>1, <2>2 DEF RequestsAgree
<1>5. /\ People!Closed = {Offered(i) : i \in {j \in Invites : Pending(j) /\ ~Pending(j)'}}
      /\ People!Opened = {Offered(i)' : i \in {j \in Invites : ~Pending(j) /\ Pending(j)'}}
      /\ People!Retires
  BY <1>3, OffersOpenAndClose
<1>6. /\ {j \in Invites : Pending(j) /\ ~Pending(j)'} = {t.inv}
      /\ {j \in Invites : ~Pending(j) /\ Pending(j)'} = {}
  BY <1>1, <1>2 DEF Pending
<1>7. People!Closed = {Offered(t.inv)} /\ People!Opened = {}
  BY <1>5, <1>6
<1>8. users[t.user].company = None \/ ~users[t.user].active
  <2>1. users[t.user] \in UserRow
    BY <1>1 DEF IInv, TypeOK
  <2>2. t.insert = ~Known(t.user) /\ (t.insert \/ MayAccept(t.user))
    BY <1>0 DEF CommitJoin, IInv, JoinsExclusive
  <2> QED
    BY <2>1, <2>2 DEF Known, MayAccept, UserRow
<1>9. LET o == Offered(t.inv)
      IN  /\ o.email = t.user
          /\ users' = [users EXCEPT ![o.email] = [company |-> o.company, role |-> o.role,
                                                  active |-> TRUE]]
  BY <1>1 DEF Offered, CommitJoin
<1>10. Drafts' = Drafts
  BY <1>0 DEF CommitJoin, Drafts, Edits, Joins
<1> HIDE DEF Offered
<1> QED
  BY <1>3, <1>4, <1>5, <1>7, <1>8, <1>9, <1>10 DEF People!Admit

\* A step that opens no invitation, closes none that is being used to register, and
\* lets users stay or leave.
LEMMA QuietStepManages ==
    ASSUME IInv, RequestsAgree, UNCHANGED open, invites' \in [Invites -> InviteRow],
           DOMAIN users' = DOMAIN users,
           \A e \in Emails : People!Stays(e) \/ People!Leaves(e),
           \A i \in Invites :
              \/ invites'[i] = invites[i]
              \/ /\ InviteFree(i) \/ Offered(i)' = Offered(i)
                 /\ Pending(i)' => Pending(i) /\ Offered(i)' = Offered(i)
                 /\ invites[i].status # "none" /\ invites'[i].status # "none"
    PROVE  InvitesAge /\ RequestsAgree' /\ People!Manage
<1>0. Joins' = Joins /\ Offers' = Offers /\ \A q \in Joins : q.inv \in Invites
  BY OpenTypes DEF Joins, Offers, IInv, Join
<1>1. InvitesAge
  BY DEF InvitesAge, Pending, Offered
<1>2. \A q \in Joins : Offered(q.inv)' = Offered(q.inv)
  BY <1>0 DEF InviteFree, Offered
<1>3. RequestsAgree'
  BY <1>0, <1>2 DEF RequestsAgree, Offered
<1>4. People!Retires /\ People!Opened = {}
  <2>1. {j \in Invites : ~Pending(j) /\ Pending(j)'} = {}
    BY DEF Pending
  <2> QED
    BY <1>1, <2>1, OffersOpenAndClose
<1>5. DOMAIN users = Emails
  BY DEF IInv, TypeOK
<1>6. Drafts' = Drafts
  BY DEF Drafts, Edits
<1> QED
  BY <1>1, <1>3, <1>4, <1>5, <1>6 DEF People!Manage

\* Switching people off and on, and what the invitations of a deleted user come to.
LEMMA ManagingManages ==
    ASSUME MembershipAssumption, IInv, RequestsAgree,
           \/ \E e \in Emails : \/ \E flag \in BOOLEAN : SetActive(e, flag)
                                \/ \E sent \in SUBSET Invites : DeleteUser(e, sent)
                                \/ SignUp(e)
           \/ \E c \in Companies, flag \in BOOLEAN : SetCompanyActive(c, flag)
    PROVE  InvitesAge /\ RequestsAgree' /\ People!Manage
<1>0. /\ users \in [Emails -> UserRow] /\ invites \in [Invites -> InviteRow]
      /\ \A e \in Emails : users[e] \in UserRow
  BY DEF IInv, TypeOK
<1>1. ASSUME NEW e \in Emails, NEW flag \in BOOLEAN, SetActive(e, flag)
      PROVE  InvitesAge /\ RequestsAgree' /\ People!Manage
  <2>1. \A d \in Emails : People!Stays(d)
    BY <1>0, <1>1 DEF SetActive, People!Stays, UserRow
  <2> QED
    BY <1>0, <1>1, <2>1, QuietStepManages DEF SetActive
<1>2. ASSUME NEW e \in Emails, NEW sent \in SUBSET Invites, DeleteUser(e, sent)
      PROVE  InvitesAge /\ RequestsAgree' /\ People!Manage
  <2>1. \A d \in Emails : People!Stays(d) \/ People!Leaves(d)
    BY <1>0, <1>2 DEF DeleteUser, People!Stays, People!Leaves, People!Outside, NoUser
  <2>2. \A i \in Invites :
           \/ invites'[i] = invites[i]
           \/ /\ InviteFree(i) /\ Live(i) /\ invites'[i] = [NoInvite EXCEPT !.status = "deleted"]
    BY <1>0, <1>2 DEF DeleteUser
  <2>3. [NoInvite EXCEPT !.status = "deleted"] \in InviteRow
    BY DEF InviteRow, NoInvite, InviteRoles, CompanyRoles
  <2>4. invites' \in [Invites -> InviteRow] /\ open' = open /\ DOMAIN users' = DOMAIN users
    BY <1>0, <1>2, <2>3 DEF DeleteUser
  <2>5. \A i \in Invites :
           \/ invites'[i] = invites[i]
           \/ /\ InviteFree(i) \/ Offered(i)' = Offered(i)
              /\ Pending(i)' => Pending(i) /\ Offered(i)' = Offered(i)
              /\ invites[i].status # "none" /\ invites'[i].status # "none"
    BY <2>2 DEF NoInvite, Live, Pending
  <2> QED
    BY <2>1, <2>4, <2>5, QuietStepManages
<1>3. ASSUME NEW e \in Emails, SignUp(e)
      PROVE  InvitesAge /\ RequestsAgree' /\ People!Manage
  <2>1. \A d \in Emails : People!Stays(d) \/ People!Leaves(d)
    BY <1>0, <1>3 DEF SignUp, People!Stays, People!Leaves, People!Outside, NoUser, Known, UserRow
  <2> QED
    BY <1>0, <1>3, <2>1, QuietStepManages DEF SignUp
<1>4. ASSUME NEW c \in Companies, NEW flag \in BOOLEAN, SetCompanyActive(c, flag)
      PROVE  InvitesAge /\ RequestsAgree' /\ People!Manage
  <2>1. \A d \in Emails : People!Stays(d)
    BY <1>0, <1>4 DEF SetCompanyActive, People!Stays, UserRow
  <2> QED
    BY <1>0, <1>4, <2>1, QuietStepManages DEF SetCompanyActive
<1> QED
  BY <1>1, <1>2, <1>3, <1>4

\* The columns a member may be saved with leave the person where they were, or outside.
LEMMA CommitSaveManages ==
    ASSUME MembershipAssumption, IInv, RequestsAgree, NEW t \in open, CommitSave(t)
    PROVE  InvitesAge /\ RequestsAgree' /\ People!Manage
<1>0. t \in Save /\ t.user \in Emails /\ Joins \subseteq Join
  BY OpenTypes DEF IInv, CommitSave, Save
<1>1. /\ users \in [Emails -> UserRow] /\ users[t.user] \in UserRow
      /\ invites \in [Invites -> InviteRow]
  BY <1>0 DEF IInv, TypeOK
<1>2. /\ users' = [users EXCEPT ![t.user] = Columns(users[t.user], t.set)]
      /\ RoleHasCompany(Columns(users[t.user], t.set))
      /\ invites' = invites /\ open' = open \ {t}
  BY DEF CommitSave
<1>3. People!Stays(t.user) \/ People!Leaves(t.user)
  <2>1. CASE t.set \in [active : BOOLEAN]
    BY <1>0, <1>1, <1>2, <2>1 DEF Columns, People!Stays, UserRow
  <2>2. CASE t.set \in [role : CompanyRoles]
    BY <1>0, <1>1, <1>2, <2>2 DEF Columns, RoleHasCompany, People!Stays, People!Inside, UserRow,
                                  CompanyRoles
  <2>3. CASE t.set \in [company : {None}, role : {"guest"}, active : {FALSE}]
    BY <1>0, <1>1, <1>2, <2>3 DEF Columns, People!Leaves, People!Outside, UserRow
  <2> QED
    BY <1>0, <2>1, <2>2, <2>3 DEF Save
<1>4. \A e \in Emails : People!Stays(e) \/ People!Leaves(e)
  BY <1>0, <1>1, <1>2, <1>3 DEF People!Stays
<1>5. DOMAIN users' = DOMAIN users /\ DOMAIN users = Emails
  BY <1>1, <1>2
<1>6. InvitesAge
  BY <1>2 DEF InvitesAge, Pending, Offered
<1>7. People!Retires /\ People!Opened = {}
  BY <1>2, <1>6, OffersOpenAndClose DEF Pending
<1>8. RequestsAgree'
  BY <1>2 DEF RequestsAgree, Joins, Offers
<1>9. Drafts' = Drafts
  BY <1>2 DEF CommitSave, Drafts, Edits
<1> QED
  BY <1>4, <1>5, <1>6, <1>7, <1>8, <1>9 DEF People!Manage

\* A step that leaves the invitations alone and at most takes requests away, none of
\* them a registration or an invitation, or begins a profile edit.
LEMMA QuietInvites ==
    ASSUME invites' = invites, Joins' \subseteq Joins, Offers' \subseteq Offers, RequestsAgree
    PROVE  InvitesAge /\ RequestsAgree' /\ OpenInvites' = OpenInvites /\ ClosedKeys' = ClosedKeys
<1>1. InvitesAge
  BY DEF InvitesAge, Pending, Offered
<1>2. RequestsAgree'
  BY DEF RequestsAgree
<1> QED
  BY <1>1, <1>2 DEF OpenInvites, ClosedKeys, Pending

\* A profile save puts the person where the edit found them; a rollback ends it too.
LEMMA EndOfEditIsEndEdit ==
    ASSUME MembershipAssumption, IInv, RequestsAgree, NEW t \in Edits, CommitProfile(t) \/ Abort(t)
    PROVE  InvitesAge /\ RequestsAgree' /\ \E d \in Drafts : People!EndEdit(d)
<1>0. t \in Profile /\ Edits \subseteq Profile
  BY OpenTypes DEF IInv
<1>1. /\ open' = open \ {t} /\ invites' = invites
      /\ users' = [users EXCEPT ![t.user] = t.row] \/ users' = users
  BY DEF CommitProfile, Abort
<1>2. InvitesAge /\ RequestsAgree' /\ OpenInvites' = OpenInvites /\ ClosedKeys' = ClosedKeys
  <2>1. Joins' \subseteq Joins /\ Offers' \subseteq Offers
    BY <1>1 DEF Joins, Offers
  <2> QED
    BY <1>1, <2>1, QuietInvites
<1> DEFINE d == [email |-> t.user, seat |-> t.row]
<1>3. d \in Drafts
  BY DEF Drafts
<1>4. Drafts' = Drafts \ {d}
  <2>1. Edits' = Edits \ {t}
    BY <1>1 DEF Edits
  <2>2. \A q \in Edits : q.user = t.user /\ q.row = t.row => q = t
    BY <1>0 DEF Profile
  <2> QED
    BY <2>1, <2>2 DEF Drafts
<1>5. d.email = t.user /\ d.seat = t.row
  OBVIOUS
<1> HIDE DEF d
<1> QED
  BY <1>1, <1>2, <1>3, <1>4, <1>5 DEF People!EndEdit

\* A profile edit begins.
LEMMA BeginOfEditIsEdit ==
    ASSUME IInv, RequestsAgree, NEW t \in Profile, t.row = users[t.user], Begin(t)
    PROVE  InvitesAge /\ RequestsAgree' /\ \E e \in DOMAIN users : People!Edit(e)
<1>0. t.kind = "profile" /\ t.user \in Emails /\ t.row.active /\ DOMAIN users = Emails
  BY DEF Profile, IInv, TypeOK
<1>1. open' = open \cup {t} /\ invites' = invites /\ users' = users
  BY DEF Begin
<1>2. InvitesAge /\ RequestsAgree' /\ OpenInvites' = OpenInvites /\ ClosedKeys' = ClosedKeys
  <2>1. Joins' \subseteq Joins /\ Offers' \subseteq Offers
    BY <1>0, <1>1 DEF Joins, Offers
  <2> QED
    BY <1>1, <2>1, QuietInvites
<1>3. Drafts' = Drafts \cup {[email |-> t.user, seat |-> users[t.user]]}
  <2>1. Edits' = Edits \cup {t}
    BY <1>0, <1>1 DEF Edits
  <2> QED
    BY <2>1 DEF Drafts
<1> QED
  BY <1>0, <1>1, <1>2, <1>3 DEF People!Edit

\* check_expired_invitations, the passing of 72 hours and the requests that only decide.
LEMMA OtherStepsInvite ==
    ASSUME MembershipAssumption, IInv, RequestsAgree,
           \/ \E i \in Invites : Lapse(i)
           \/ CheckExpiredInvitations
           \/ \E t : MayBegin(t) /\ Begin(t) /\ t \notin Profile
           \/ \E t \in open \ Edits : Abort(t)
           \/ UNCHANGED vars
    PROVE  InvitesAge /\ RequestsAgree' /\ People!Invite
<1>0. invites \in [Invites -> InviteRow] /\ \A i \in Invites : invites[i] \in InviteRow
  BY DEF IInv, TypeOK
<1>1. /\ users' = users
      /\ \A i \in Invites : /\ Offered(i)' = Offered(i)
                            /\ Pending(i)' => Pending(i)
                            /\ (invites'[i].status = "none") = (invites[i].status = "none")
  <2>1. ASSUME NEW i \in Invites, Lapse(i)
        PROVE  /\ users' = users
               /\ \A j \in Invites : /\ Offered(j)' = Offered(j)
                                     /\ Pending(j)' => Pending(j)
                                     /\ (invites'[j].status = "none")
                                            = (invites[j].status = "none")
    BY <1>0, <2>1 DEF Lapse, Usable, Offered, Pending, InviteRow
  <2>2. CASE CheckExpiredInvitations
    BY <1>0, <2>2 DEF CheckExpiredInvitations, Offered, Pending, InviteRow
  <2>3. CASE UNCHANGED <<users, invites>>
    BY <2>3 DEF Offered, Pending
  <2> QED
    BY <2>1, <2>2, <2>3 DEF Begin, Abort, vars
<1>2. InvitesAge
  BY <1>1 DEF InvitesAge
<1>3. RequestsAgree'
  <2>1. \A t \in Join : t.inv \in Invites
    BY DEF Join
  <2>2. ASSUME NEW t, MayBegin(t), Begin(t)
        PROVE  RequestsAgree'
    <3>1. /\ \A q \in Join  : q.kind = "join"
          /\ \A q \in Save  : q.kind = "save"
          /\ \A q \in Profile : q.kind = "profile"
          /\ \A q \in Offer : q.kind = "offer"
      BY DEF Join, Save, Profile, Offer
    <3>2. /\ Joins' = IF t \in Join THEN Joins \cup {t} ELSE Joins
          /\ Offers' = IF t \in Offer THEN Offers \cup {t} ELSE Offers
          /\ invites' = invites
      BY <2>2, <3>1 DEF Begin, Joins, Offers, MayBegin
    <3> QED
      BY <2>2, <3>2 DEF RequestsAgree, MayBegin, Carries
  <2>3. CASE Joins' \subseteq Joins /\ Offers' \subseteq Offers
    <3>1. \A q \in Joins : q.inv \in Invites
      BY <2>1, OpenTypes DEF IInv
    <3> QED
      BY <1>1, <2>3, <3>1 DEF RequestsAgree, Offered
  <2>4. ASSUME UNCHANGED open \/ \E t \in open : Abort(t)
        PROVE  Joins' \subseteq Joins /\ Offers' \subseteq Offers
    BY <2>4 DEF Joins, Offers, Abort
  <2> QED
    BY <2>2, <2>3, <2>4 DEF Lapse, CheckExpiredInvitations, vars
<1>4. People!Retires /\ People!Opened = {}
  BY <1>1, <1>2, OffersOpenAndClose
<1>5. Drafts' = Drafts
  <2>1. Edits' = Edits
    <3>1. ASSUME NEW t, MayBegin(t), Begin(t), t \notin Profile
          PROVE  Edits' = Edits
      BY <3>1 DEF MayBegin, Begin, Edits, Join, Save, Offer
    <3>2. ASSUME NEW t \in open \ Edits, Abort(t)
          PROVE  Edits' = Edits
      BY <3>2 DEF Abort, Edits
    <3> QED
      BY <3>1, <3>2 DEF Lapse, CheckExpiredInvitations, vars, Edits
  <2> QED
    BY <2>1 DEF Drafts
<1> QED
  BY <1>1, <1>2, <1>3, <1>4, <1>5 DEF People!Invite

\* Every step keeps the requests in agreement with their rows and is a step of Roster.
LEMMA StepsFollowRoster ==
    ASSUME MembershipAssumption, IInv, RequestsAgree, [Next]_vars
    PROVE  InvitesAge /\ RequestsAgree' /\ People!Next
<1>1. Effect
  BY HandlersBegin
<1>2. ASSUME NEW t \in open, Commit(t)
      PROVE  InvitesAge /\ RequestsAgree' /\ People!Next
  <2>1. CASE CommitProfile(t)
    BY <2>1, EndOfEditIsEndEdit DEF CommitProfile, People!Next
  <2> QED
    BY <1>2, <2>1, CommitJoinAdmits, CommitSaveManages, CommitOfferInvites DEF Commit, People!Next
<1>3. ASSUME NEW t \in open, Abort(t)
      PROVE  InvitesAge /\ RequestsAgree' /\ People!Next
  BY <1>3, EndOfEditIsEndEdit, OtherStepsInvite DEF People!Next
<1>4. ASSUME NEW t, MayBegin(t), Begin(t)
      PROVE  InvitesAge /\ RequestsAgree' /\ People!Next
  <2>1. CASE t \in Profile
    <3>1. t.row = users[t.user]
      BY <1>4, <2>1 DEF MayBegin, Join, Save, Offer, Profile
    <3> QED
      BY <1>4, <2>1, <3>1, BeginOfEditIsEdit DEF People!Next
  <2>2. CASE t \notin Profile
    BY <1>4, <2>2, OtherStepsInvite DEF People!Next
  <2> QED
    BY <2>1, <2>2
<1> QED
  BY <1>1, <1>2, <1>3, <1>4, ManagingManages, OtherStepsInvite DEF Effect, People!Next

\* What the requests under way were decided on still stands when they commit: the row an
\* invitation will be inserted with, and the offer a registration has locked.
THEOREM RequestsStayInAgreement == Spec => []RequestsAgree
<1>1. Init => RequestsAgree
  BY DEF Init, RequestsAgree, Joins, Offers
<1>2. IInv /\ RequestsAgree /\ [Next]_vars => RequestsAgree'
  BY StepsFollowRoster, MembershipAssumption
<1> QED
  BY <1>1, <1>2, MembershipInvariant, PTL DEF Spec

\* The companies follow the roster: nobody gets a place, or another role from outside,
\* but by an open invitation to their address, which that closes for ever, or by a save of
\* a profile whose edit began while they had it (InviteRegistrationSerializer.create,
\* update_profile, the views of members and of invitations).
THEOREM MembershipImplementsRoster == Spec => ImplementsRoster
<1>1. Init => People!Init
  BY MembershipAssumption DEF Init, People!Init, People!Outside, OpenInvites, ClosedKeys, Drafts,
                              Edits, NoUser, NoInvite, Pending
<1>2. IInv /\ RequestsAgree /\ [Next]_vars => [People!Next]_(People!rvars)
  BY StepsFollowRoster, MembershipAssumption
<1> QED
  BY <1>1, <1>2, MembershipInvariant, RequestsStayInAgreement, PTL
     DEF Spec, ImplementsRoster, People!Spec

\* No invitation of the roster opens twice, and no two are open under one key.
THEOREM InvitationsOpenOnce == ImplementsRoster => []People!OpenOnce
<1>1. People!Init => People!OpenOnce
  BY DEF People!Init, People!OpenOnce
<1>2. People!OpenOnce /\ [People!Next]_(People!rvars) => People!OpenOnce'
  <2> SUFFICES ASSUME People!OpenOnce, [People!Next]_(People!rvars) PROVE People!OpenOnce'
    OBVIOUS
  <2>1. CASE People!Invite
    BY <2>1 DEF People!Invite, People!OpenOnce, People!Retires, People!Opened, People!Closed
  <2>2. CASE People!Admit
    BY <2>2 DEF People!Admit, People!OpenOnce, People!Retires, People!Opened, People!Closed
  <2>3. CASE People!Manage
    BY <2>3 DEF People!Manage, People!OpenOnce, People!Retires, People!Opened, People!Closed
  <2>4. ASSUME UNCHANGED <<OpenInvites, ClosedKeys>>
        PROVE  People!OpenOnce'
    BY <2>4 DEF People!OpenOnce
  <2>5. CASE UNCHANGED People!rvars
    BY <2>4, <2>5 DEF People!rvars
  <2> QED
    BY <2>1, <2>2, <2>3, <2>4, <2>5 DEF People!Next, People!Edit, People!EndEdit
<1> QED
  BY <1>1, <1>2, PTL DEF ImplementsRoster, People!Spec
=============================================================================
