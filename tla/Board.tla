------------------------------- MODULE Board -------------------------------
(***************************************************************************)
(* The columns and the tasks of one board (apps/crm): where a task stands, *)
(* the limit of work in progress, and what becomes of both when a column   *)
(* is deleted.                                                             *)
(*                                                                         *)
(* One action is one request, and the requests follow one another.  The    *)
(* code locks nothing here: requests that overlap can pass a limit, share  *)
(* a position or lose a task that arrives in a column being deleted, and   *)
(* the properties below are about histories without overlap.  The boards   *)
(* that a PATCH brings tasks from, or takes them to, are not modelled.     *)
(***************************************************************************)
EXTENDS Integers, FiniteSets

CONSTANTS
    Columns,    \* bound: primary keys of columns
    Tasks,      \* bound: primary keys of tasks, naturals; a later task has a larger key
    None,       \* NULL
    Limits,     \* bound: the limits a column is given, 0 for none
    MaxOrder    \* bound: the largest place a client asks for, or a task has on another board

VARIABLES
    columns,    \* columns[c]: the row of crm_columns
    tasks       \* tasks[t]: the row of crm_tasks

vars == <<columns, tasks>>

ASSUME BoardAssumption ==
    /\ Tasks \subseteq Nat /\ IsFiniteSet(Tasks)
    /\ IsFiniteSet(Columns) /\ None \notin Columns /\ None \notin Nat
    /\ Limits \subseteq Nat /\ 0 \in Limits
    /\ MaxOrder \in Nat \ {0}

-----------------------------------------------------------------------------
(* Reading; `f` is a table of tasks *)

ColumnRow == [exists : BOOLEAN, position : Nat, wip : Limits]
NoColumn  == [exists |-> FALSE, position |-> 0, wip |-> 0]

\* "live": neither flag; "archived": is_deleted and is_archived; "deleted": is_deleted.
\* "none": the key was never used; "away": the row is on another board; "lost": the row
\* went with its column.
TaskRow == [status : {"none", "live", "archived", "deleted", "away", "lost"},
            column : Columns \cup {None}, position : Nat]
NoTask  == [status |-> "none", column |-> None, position |-> 0]

Present      == {c \in Columns : columns[c].exists}
LiveIn(f, c) == {t \in Tasks : f[t].status = "live" /\ f[t].column = c}
Stored(t)    == tasks[t].status \in {"live", "archived", "deleted"}

Largest(S) == CHOOSE n \in S \cup {0} : \A m \in S : m <= n

\* Mutant: the limit may be passed by one.
HasRoomOff(c, n, t) ==
    columns[c].wip = 0 \/ Cardinality(LiveIn(tasks, c) \ {t}) + n <= columns[c].wip + 1

\* check_wip_limit: room for `n` more tasks, not counting `t`.
HasRoom(c, n, t) ==
    columns[c].wip = 0 \/ Cardinality(LiveIn(tasks, c) \ {t}) + n <= columns[c].wip

\* The place of a live task among those of its column, by position and then by age.
Rank(f, t) ==
    Cardinality({u \in LiveIn(f, f[t].column) :
                    \/ f[u].position < f[t].position
                    \/ f[u].position = f[t].position /\ u <= t})

\* _normalize_positions of the columns in C
Normalized(f, C) ==
    [t \in Tasks |-> IF f[t].status = "live" /\ f[t].column \in C
                     THEN [f[t] EXCEPT !.position = Rank(f, t)] ELSE f[t]]

\* `t` is the key the next row gets.
Unused(t) ==
    /\ tasks[t].status = "none"
    /\ \A k \in Tasks : k < t => tasks[k].status # "none"

-----------------------------------------------------------------------------
(* Tasks *)

\* perform_create: the position is 0 until the column is numbered.
CreateTask(t, c) ==
    /\ Unused(t)
    /\ c \in Present /\ HasRoom(c, 1, t)
    /\ tasks' = Normalized([tasks EXCEPT ![t] = [NoTask EXCEPT !.status = "live", !.column = c]],
                           {c})
    /\ UNCHANGED columns

\* perform_update reaches every row, the archived and the deleted too, keeps the position
\* and numbers nothing.
PatchTask(t, c) ==
    /\ Stored(t)
    /\ c \in Present
    /\ c # tasks[t].column => HasRoom(c, 1, t)
    /\ tasks' = [tasks EXCEPT ![t].column = c]
    /\ UNCHANGED columns

\* The same PATCH with the board_id of another board takes the task there, and its old
\* column is not numbered again; or the task is created there.
TaskElsewhere(t) ==
    /\ Stored(t) \/ Unused(t)
    /\ tasks' = [tasks EXCEPT ![t] = [NoTask EXCEPT !.status = "away"]]
    /\ UNCHANGED columns

\* The same PATCH brings a task of another board, as it was archived, deleted and placed.
BringTask(t, c, status, position) ==
    /\ tasks[t].status = "away"
    /\ c \in Present /\ HasRoom(c, 1, t)
    /\ tasks' = [tasks EXCEPT ![t] = [status |-> status, column |-> c, position |-> position]]
    /\ UNCHANGED columns

\* Mutant: the column the task leaves is not numbered again.
DisturbedTarget(t, c) == {c}

\* The columns that move() numbers again.
Disturbed(t, c) == {tasks[t].column, c}

\* move, to place `order`, or to the end if it is None.
MoveTask(t, c, order) ==
    LET last  == Largest({tasks[k].position : k \in LiveIn(tasks, c) \ {t}})
        place == IF order = None THEN last + 1 ELSE order
    IN  /\ tasks[t].status = "live"
        /\ c \in Present /\ HasRoom(c, 1, t)
        /\ tasks' = Normalized([tasks EXCEPT ![t].column = c, ![t].position = place],
                               Disturbed(t, c))
        /\ UNCHANGED columns

\* destroy and archive: `status` is "deleted" or "archived".
RemoveTask(t, status) ==
    /\ tasks[t].status = "live"
    /\ tasks' = Normalized([tasks EXCEPT ![t].status = status], {tasks[t].column})
    /\ UNCHANGED columns

UnarchiveTask(t) ==
    /\ tasks[t].status = "archived"
    /\ HasRoom(tasks[t].column, 1, t)
    /\ tasks' = Normalized([tasks EXCEPT ![t].status = "live"], {tasks[t].column})
    /\ UNCHANGED columns

-----------------------------------------------------------------------------
(* Columns *)

\* perform_create: behind the last column.
CreateColumn(c, wip) ==
    /\ c \notin Present
    /\ columns' = [columns EXCEPT ![c] =
          [exists |-> TRUE, wip |-> wip,
           position |-> Largest({columns[b].position : b \in Present}) + 1]]
    /\ UNCHANGED tasks

\* Mutant: the column that stands where another is put stays there.
ShiftedShort(p, from, to) ==
    IF from < p /\ p <= to THEN p - 1 ELSE IF to < p /\ p < from THEN p + 1 ELSE p

\* Where the position `p` of a sibling goes when a column moves.
Shifted(p, from, to) ==
    IF from < p /\ p <= to THEN p - 1 ELSE IF to <= p /\ p < from THEN p + 1 ELSE p

\* Mutant: a limit is compared with nothing.
LimitAllowedAny(c, wip) == TRUE

\* validate_wip_limit
LimitAllowed(c, wip) == wip = 0 \/ Cardinality(LiveIn(tasks, c)) <= wip

\* partial_update with a new limit, a new position, or both.
PatchColumn(c, wip, position) ==
    LET from    == columns[c].position
        clamped == IF position > Cardinality(Present) THEN Cardinality(Present) ELSE position
        to      == IF position = from THEN from ELSE clamped
    IN  /\ c \in Present
        /\ wip # columns[c].wip => LimitAllowed(c, wip)
        /\ columns' = [d \in Columns |->
              IF d = c THEN [columns[c] EXCEPT !.position = to, !.wip = wip]
              ELSE IF d \in Present /\ from # to
                   THEN [columns[d] EXCEPT !.position = Shifted(@, from, to)]
              ELSE columns[d]]
        /\ UNCHANGED tasks

\* reorder: every column of the board is in the list, once or more often, and gets the last
\* of its places in it.
Reorder(order) ==
    /\ \A c, d \in Present : c # d => order[c] # order[d]
    /\ columns' = [c \in Columns |-> IF c \in Present
                                     THEN [columns[c] EXCEPT !.position = order[c]]
                                     ELSE columns[c]]
    /\ UNCHANGED tasks

\* Mutant: only the archived rows are looked for.
MovedNone(c) == {}

\* The tasks that destroy moves: those the soft-delete manager shows.
Moved(c) == LiveIn(tasks, c)

\* Mutant: the foreign key of the tasks is left dangling.
LostNone(c) == {}

\* The rows that go with the column (on_delete CASCADE).
Lost(c) == {t \in Tasks : Stored(t) /\ tasks[t].column = c} \ Moved(c)

\* destroy: the tasks move, the row goes and by cascade those still in it, and the other
\* columns are numbered again.
DeleteColumn(c, to) ==
    LET rest == Present \ {c} IN
    /\ c \in Present /\ to \in rest
    /\ LiveIn(tasks, c) # {} => HasRoom(to, Cardinality(LiveIn(tasks, c)), None)
    /\ tasks' = [t \in Tasks |->
          IF t \in Moved(c) THEN [tasks[t] EXCEPT !.column = to]
          ELSE IF t \in Lost(c) THEN [NoTask EXCEPT !.status = "lost"]
          ELSE tasks[t]]
    /\ columns' = [d \in Columns |->
          IF d = c THEN NoColumn
          ELSE IF d \in rest
               THEN [columns[d] EXCEPT !.position =
                        Cardinality({e \in rest : columns[e].position <= @})]
          ELSE columns[d]]

-----------------------------------------------------------------------------
(* Specification *)

\* A board starts with at least one column; its template numbers them from 0.
Init ==
    /\ \E start \in SUBSET Columns \ {{}} : \E place \in [start -> 0 .. Cardinality(start) - 1] :
          /\ \A c, d \in start : c # d => place[c] # place[d]
          /\ columns = [c \in Columns |->
                           IF c \in start THEN [exists |-> TRUE, position |-> place[c], wip |-> 0]
                           ELSE NoColumn]
    /\ tasks = [t \in Tasks |-> NoTask]

OnTask(t) ==
    \/ \E c \in Columns : CreateTask(t, c) \/ PatchTask(t, c)
    \/ \E c \in Columns, order \in 1 .. MaxOrder \cup {None} : MoveTask(t, c, order)
    \/ \E status \in {"archived", "deleted"} : RemoveTask(t, status)
    \/ UnarchiveTask(t)
    \/ TaskElsewhere(t)
    \/ \E c \in Columns, status \in {"live", "archived", "deleted"}, position \in 0 .. MaxOrder :
          BringTask(t, c, status, position)

OnColumn(c) ==
    \/ \E wip \in Limits : CreateColumn(c, wip)
    \/ \E wip \in Limits : \E position \in {columns[c].position} \cup 1 .. MaxOrder :
          PatchColumn(c, wip, position)
    \/ \E to \in Columns : DeleteColumn(c, to)

\* bound: the list sent to reorder is at most one longer than the columns are many.
Places == 1 .. Cardinality(Present) + 1

Next ==
    \/ \E t \in Tasks : OnTask(t)
    \/ \E c \in Columns : OnColumn(c)
    \/ \E order \in [Present -> Places] : Reorder(order)

Spec == Init /\ [][Next]_vars

-----------------------------------------------------------------------------
(* Properties *)

\* Every kept task is in a column of the board.
TypeOK ==
    /\ columns \in [Columns -> ColumnRow]
    /\ tasks \in [Tasks -> TaskRow]
    /\ \A t \in Tasks : Stored(t) => tasks[t].column \in Present

\* check_wip_limit and validate_wip_limit together: no column holds more live tasks than
\* its limit, whichever way a task comes in (created, moved, patched, unarchived, or with
\* the tasks of a deleted column) and whichever way the limit comes down.
WipHolds ==
    \A c \in Present : columns[c].wip = 0 \/ Cardinality(LiveIn(tasks, c)) <= columns[c].wip

\* The shift of partial_update, the numbering of destroy, the end of create and reorder,
\* from a template that counts from 0: two columns never share a position.
ColumnsInOrder ==
    \A c, d \in Present : c # d => columns[c].position # columns[d].position

\* A move numbers the column it leaves and the one it enters: both read 1, 2, 3, ...
\* afterwards, whatever a PATCH or the deletion of a column left there.
MoveNumbersBoth ==
    [][\A t \in Tasks, c \in Columns, order \in 1 .. MaxOrder \cup {None} :
          tasks'[t].column = c /\ MoveTask(t, c, order) =>
             \A d \in {tasks[t].column, c} :
                {tasks'[u].position : u \in LiveIn(tasks', d)}
                   = 1 .. Cardinality(LiveIn(tasks', d))]_vars

\* destroy of a column takes its rows by CASCADE: no live task is among them.
LiveTasksSurvive ==
    [][\A t \in Tasks : tasks[t].status = "live" => tasks'[t].status # "lost"]_vars
=============================================================================
