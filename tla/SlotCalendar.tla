---------------------------- MODULE SlotCalendar ----------------------------
(***************************************************************************)
(* What the booking component promises about the calendar of a resource,  *)
(* with no transaction, lock or task in sight: a set of reservations that *)
(* never clash, changed by three kinds of step only.  Reservations.tla is  *)
(* shown to implement it, with held = the confirmed bookings.              *)
(***************************************************************************)
EXTENDS Integers

VARIABLE held   \* set of reservations [id, res, start, end, prio]

Clash(a, b) ==
    /\ a.id # b.id
    /\ a.res = b.res
    /\ a.start < b.end
    /\ b.start < a.end

Clear(news, others) == \A n \in news : \A o \in others : ~Clash(n, o)

\* Reservations that appear in, and that disappear in, this step.
Gained == held' \ held
Lost   == held \ held'

Init == held = {}

\* Reservations end: cancelled, completed, marked no-show, deleted or blocked.
Release == held' \subseteq held

\* New reservations appear on free time; an earlier reservation makes room only
\* for a clashing new one of a strictly higher tier.
Reserve ==
    /\ \A n \in Gained : \A h \in held : n.id # h.id
    /\ \A o \in Lost : \E n \in Gained : Clash(n, o) /\ o.prio < n.prio
    /\ Clear(Gained, held')

\* One reservation takes another, free time; nothing else changes.
Move ==
    \E o \in Lost, n \in Gained :
        /\ Lost = {o} /\ Gained = {n}
        /\ n.id = o.id /\ n.prio = o.prio /\ n.res = o.res
        /\ Clear({n}, held')

Next == Release \/ Reserve \/ Move

Spec == Init /\ [][Next]_held

NoClash == \A a, b \in held : ~Clash(a, b)
=============================================================================
