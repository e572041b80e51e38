------------------------------- MODULE Roster -------------------------------
(***************************************************************************)
(* What invitations promise, with no request, lock or task in sight: a     *)
(* place in a company is given by an open invitation, to the address it    *)
(* names, with the role it names, and that closes it for ever.  A seat     *)
(* that has been left is taken again in one other way: the person edited   *)
(* their profile while they had it, and the edit is saved later.           *)
(* Membership.tla is shown to implement it, with seats = the users,        *)
(* offered = the invitations that have been neither used nor withdrawn,    *)
(* drafts = the profile saves under way.                                   *)
(***************************************************************************)

CONSTANT None   \* no company

VARIABLES
    seats,      \* seats[e]: [company, role, active] of an address
    offered,    \* open invitations [id, email, company, role]
    retired,    \* keys of the invitations that were open once
    drafts      \* profiles being edited [email, seat]: the seat when the edit began

rvars == <<seats, offered, retired, drafts>>

Outside == {"guest", "none"}
Inside  == {"employee", "company_admin"}

\* Invitations that open, and that close, in this step.
Opened == offered' \ offered
Closed == offered \ offered'

\* A closed invitation is remembered, and nothing else is.
Retires == retired' = retired \cup {o.id : o \in Closed}

Init == /\ \A e \in DOMAIN seats : seats[e].company = None /\ seats[e].role \in Outside
        /\ offered = {} /\ retired = {} /\ drafts = {}

\* Invitations are withdrawn or expire; at most one is made, under a key of its own.
Invite ==
    /\ Retires
    /\ \A n, m \in Opened : n = m
    /\ \A n \in Opened : n.id \notin retired /\ \A o \in offered : n.id # o.id
    /\ UNCHANGED <<seats, drafts>>

\* Somebody who is not an active member elsewhere takes the place that was offered.
Admit ==
    \E o \in Closed :
        /\ Closed = {o} /\ Opened = {}
        /\ Retires
        /\ seats[o.email].company = None \/ ~seats[o.email].active
        /\ seats' = [seats EXCEPT ![o.email] = [company |-> o.company, role |-> o.role,
                                                active |-> TRUE]]
        /\ UNCHANGED drafts

\* An edit begins; the seat goes with it.
Edit(e) ==
    /\ seats[e].active
    /\ drafts' = drafts \cup {[email |-> e, seat |-> seats[e]]}
    /\ UNCHANGED <<seats, offered, retired>>

\* An edit is saved, or given up.
EndEdit(d) ==
    /\ \/ seats' = [seats EXCEPT ![d.email] = d.seat]
       \/ seats' = seats
    /\ drafts' = drafts \ {d}
    /\ UNCHANGED <<offered, retired>>

\* Those who manage people give nobody a company, or a role outside one.
Stays(e) ==
    /\ seats'[e].company = seats[e].company
    /\ \/ seats'[e].role = seats[e].role
       \/ seats[e].company # None /\ seats'[e].role \in Inside

Leaves(e) ==
    /\ seats'[e].company = None /\ seats'[e].role \in Outside
    /\ seats[e].company # None => ~seats'[e].active

\* People are switched off and on, change roles or leave.
Manage ==
    /\ Opened = {} /\ Retires
    /\ DOMAIN seats' = DOMAIN seats
    /\ \A e \in DOMAIN seats : Stays(e) \/ Leaves(e)
    /\ UNCHANGED drafts

Next ==
    \/ Invite \/ Admit \/ Manage
    \/ \E e \in DOMAIN seats : Edit(e)
    \/ \E d \in drafts : EndEdit(d)

Spec == Init /\ [][Next]_rvars

\* An invitation once closed is not open again, nor are two open under one key.
OpenOnce == \A o \in offered : o.id \notin retired /\ \A p \in offered : p.id = o.id => p = o
=============================================================================
