---------------------------- MODULE BoardProofs ----------------------------
(***************************************************************************)
(* Theorems about Board, for any columns, tasks, limits and places.        *)
(***************************************************************************)
EXTENDS Board, FiniteSetTheorems, WellFoundedInduction, TLAPS

-----------------------------------------------------------------------------
(* Largest *)

\* A finite set of numbers that is not empty has a largest one: of the sets of those above
\* a member, one is minimal, and it is empty.
LEMMA MaximumExists ==
    ASSUME NEW S, S \subseteq Nat, IsFiniteSet(S), S # {}
    PROVE  \E n \in S : \A m \in S : m <= n
<1> DEFINE Above(n) == {k \in S : n < k}
           T == {Above(n) : n \in S}
<1>1. T \subseteq FiniteSubsetsOf(S) /\ T # {}
  <2>1. FiniteSubsetsOf(S) = SUBSET S
    BY FS_FiniteSubsetsOfFinite
  <2>2. \A n \in S : Above(n) \in SUBSET S
    OBVIOUS
  <2>3. T \subseteq SUBSET S /\ T # {}
    BY <2>2
  <2> QED
    BY <2>1, <2>3
<1>2. PICK A \in T : \A B \in T : ~(<<B, A>> \in StrictSubsetOrdering(S))
  <2> HIDE DEF T
  <2> QED
    BY <1>1, WFMin, FS_StrictSubsetOrderingWellFounded
<1>3. PICK n \in S : A = Above(n)
  OBVIOUS
<1>4. A = {}
  <2> SUFFICES ASSUME NEW k \in A PROVE FALSE
    OBVIOUS
  <2>1. k \in S /\ n < k /\ k \in Nat /\ n \in Nat
    BY <1>3
  <2>2. Above(k) \subseteq A /\ k \notin Above(k)
    <3>1. \A j \in S : k < j => n < j
      BY <2>1
    <3>2. \A j \in Above(k) : j \in Above(n)
      BY <3>1
    <3>3. ~(k < k)
      BY <2>1
    <3>4. k \notin Above(k)
      BY <3>3
    <3> HIDE DEF Above
    <3> QED
      BY <1>3, <3>2, <3>4
  <2>3. Above(k) \in T /\ Above(k) \in SUBSET S /\ A \in SUBSET S /\ Above(k) # A
    BY <2>1, <2>2
  <2>4. <<Above(k), A>> \in StrictSubsetOrdering(S)
    BY <2>2, <2>3 DEF StrictSubsetOrdering
  <2> QED
    BY <1>2, <2>3, <2>4
<1>5. \A m \in S : ~(n < m)
  BY <1>3, <1>4
<1> QED
  BY <1>5

\* Largest is above every member, and a natural number.
LEMMA LargestIsAbove ==
    ASSUME NEW S, S \subseteq Nat, IsFiniteSet(S)
    PROVE  Largest(S) \in Nat /\ \A m \in S : m <= Largest(S)
<1> DEFINE Z == S \cup {0}
<1>1. Z \subseteq Nat /\ IsFiniteSet(Z) /\ Z # {}
  BY FS_AddElement
<1>2. \E n \in Z : \A m \in Z : m <= n
  BY <1>1, MaximumExists
<1>3. \E n \in S \cup {0} : \A m \in S : m <= n
  BY <1>2
<1>4. Largest(S) \in Z /\ \A m \in S : m <= Largest(S)
  BY <1>3 DEF Largest
<1> HIDE DEF Z
<1> QED
  BY <1>1, <1>4

\* The positions of some columns or tasks are finitely many numbers.
LEMMA PositionsFinite ==
    ASSUME NEW S, IsFiniteSet(S), NEW f, \A x \in S : f[x].position \in Nat
    PROVE  {f[x].position : x \in S} \subseteq Nat /\ IsFiniteSet({f[x].position : x \in S})
<1> DEFINE P == {f[x].position : x \in S}
           g == [x \in S |-> f[x].position]
<1>1. g \in Surjection(S, P)
  BY DEF Surjection
<1>2. IsFiniteSet(P)
  BY <1>1, FS_Surjection
<1> QED
  BY <1>2

-----------------------------------------------------------------------------
(* Rank *)

\* Any set of tasks is finite.
LEMMA TasksFinite ==
    ASSUME BoardAssumption, NEW S, S \subseteq Tasks
    PROVE  IsFiniteSet(S) /\ Cardinality(S) \in Nat
BY FS_Subset, FS_CardinalityType DEF BoardAssumption

\* The live tasks of a column are numbered 1, 2, 3, ... by Rank.
LEMMA RanksCount ==
    ASSUME BoardAssumption, NEW f \in [Tasks -> TaskRow], NEW c \in Columns
    PROVE  {Rank(f, t) : t \in LiveIn(f, c)} = 1 .. Cardinality(LiveIn(f, c))
<1> DEFINE S == LiveIn(f, c)
           n == Cardinality(S)
           Below(t) == {u \in S : \/ f[u].position < f[t].position
                                  \/ f[u].position = f[t].position /\ u <= t}
           g == [t \in S |-> Rank(f, t)]
<1>1. S \subseteq Tasks /\ S \subseteq Nat /\ IsFiniteSet(S) /\ n \in Nat
  BY TasksFinite DEF LiveIn, BoardAssumption
<1>2. \A t \in S : f[t].position \in Nat /\ f[t].column = c
  BY DEF LiveIn, TaskRow
<1>3. \A t \in S : Rank(f, t) = Cardinality(Below(t))
  BY <1>2 DEF Rank
<1>4. \A t \in S : IsFiniteSet(Below(t)) /\ Cardinality(Below(t)) \in 1 .. n
  <2> SUFFICES ASSUME NEW t \in S
               PROVE  IsFiniteSet(Below(t)) /\ Cardinality(Below(t)) \in 1 .. n
    OBVIOUS
  <2>1. t \in Below(t) /\ Below(t) \in SUBSET S
    BY <1>1, <1>2
  <2>2. /\ IsFiniteSet(Below(t)) /\ Cardinality(Below(t)) \in Nat
        /\ Cardinality(Below(t)) <= n
    BY <1>1, <2>1, FS_Subset, FS_CardinalityType
  <2>3. Cardinality(Below(t)) # 0
    BY <2>1, <2>2, FS_EmptySet
  <2> HIDE DEF n, Below
  <2> QED
    BY <1>1, <2>2, <2>3
<1>5. \A t, u \in S : Cardinality(Below(t)) = Cardinality(Below(u)) => t = u
  <2> SUFFICES ASSUME NEW t \in S, NEW u \in S,
                      Cardinality(Below(t)) = Cardinality(Below(u))
               PROVE  t = u
    OBVIOUS
  <2>1. Below(t) \subseteq Below(u) \/ Below(u) \subseteq Below(t)
    BY <1>1, <1>2
  <2>2. Below(t) = Below(u)
    BY <1>4, <2>1, FS_Subset
  <2>3. t \in Below(u) /\ u \in Below(t)
    BY <1>1, <1>2, <2>2
  <2> QED
    BY <1>1, <1>2, <2>3
<1> HIDE DEF S, n, Below
<1>6. g \in Injection(S, 1 .. n)
  BY <1>3, <1>4, <1>5 DEF Injection, IsInjective
<1>7. IsFiniteSet(1 .. n) /\ Cardinality(1 .. n) = n
  BY <1>1, FS_Interval
<1>8. g \in Surjection(S, 1 .. n)
  BY <1>6, <1>7, FS_Injection DEF n
<1>9. {Rank(f, t) : t \in S} = 1 .. n
  <2>1. \A t \in S : g[t] = Rank(f, t) /\ g[t] \in 1 .. n
    BY <1>3, <1>4
  <2>2. \A i \in 1 .. n : \E t \in S : g[t] = i
    BY <1>8 DEF Surjection
  <2> HIDE DEF g
  <2> QED
    BY <2>1, <2>2
<1> QED
  BY <1>9 DEF S, n

\* Numbering moves no task to another column and keeps the rows well formed.
LEMMA NormalizedRows ==
    ASSUME BoardAssumption, NEW f \in [Tasks -> TaskRow], NEW C
    PROVE  /\ Normalized(f, C) \in [Tasks -> TaskRow]
           /\ \A t \in Tasks : /\ Normalized(f, C)[t].status = f[t].status
                               /\ Normalized(f, C)[t].column = f[t].column
           /\ \A c : LiveIn(Normalized(f, C), c) = LiveIn(f, c)
<1>1. \A t \in Tasks : Rank(f, t) \in Nat
  <2> SUFFICES ASSUME NEW t \in Tasks PROVE Rank(f, t) \in Nat
    OBVIOUS
  <2>1. {u \in LiveIn(f, f[t].column) :
            \/ f[u].position < f[t].position
            \/ f[u].position = f[t].position /\ u <= t} \subseteq Tasks
    BY DEF LiveIn
  <2> QED
    BY <2>1, TasksFinite DEF Rank
<1>2. /\ Normalized(f, C) \in [Tasks -> TaskRow]
      /\ \A t \in Tasks : /\ Normalized(f, C)[t].status = f[t].status
                          /\ Normalized(f, C)[t].column = f[t].column
  BY <1>1 DEF Normalized, TaskRow
<1> QED
  BY <1>2 DEF LiveIn

\* The tasks of a column that was numbered stand at 1, 2, 3, ...
LEMMA NormalizedCounts ==
    ASSUME BoardAssumption, NEW f \in [Tasks -> TaskRow], NEW C, NEW d \in C, d \in Columns
    PROVE  {Normalized(f, C)[u].position : u \in LiveIn(f, d)} = 1 .. Cardinality(LiveIn(f, d))
<1>1. \A u \in LiveIn(f, d) : Normalized(f, C)[u].position = Rank(f, u)
  BY DEF Normalized, LiveIn, TaskRow
<1>2. {Normalized(f, C)[u].position : u \in LiveIn(f, d)} = {Rank(f, u) : u \in LiveIn(f, d)}
  BY <1>1
<1> QED
  BY <1>2, RanksCount
-----------------------------------------------------------------------------
(* Tasks *)

\* The inductive invariant.
IInv == TypeOK /\ WipHolds /\ ColumnsInOrder

\* A request that lets at most the task `t` into the column `c`, where there is room for it,
\* and none into another, keeps every limit.
LEMMA ArrivalKeepsLimits ==
    ASSUME BoardAssumption, TypeOK, WipHolds, UNCHANGED columns,
           NEW t \in Tasks, NEW c \in Columns,
           \A d \in Columns \ {c} : LiveIn(tasks', d) \subseteq LiveIn(tasks, d),
           LiveIn(tasks', c) \subseteq LiveIn(tasks, c) \cup {t},
           LiveIn(tasks', c) \subseteq LiveIn(tasks, c) \/ HasRoom(c, 1, t)
    PROVE  WipHolds'
<1> SUFFICES ASSUME NEW d \in Present, columns[d].wip # 0
             PROVE  Cardinality(LiveIn(tasks', d)) <= columns[d].wip
  BY DEF WipHolds, Present
<1>1. d \in Columns /\ columns[d].wip \in Nat
  BY DEF Present, TypeOK, ColumnRow, BoardAssumption
<1>2. /\ IsFiniteSet(LiveIn(tasks, d)) /\ Cardinality(LiveIn(tasks, d)) \in Nat
      /\ Cardinality(LiveIn(tasks', d)) \in Nat
  BY TasksFinite DEF LiveIn
<1>3. Cardinality(LiveIn(tasks, d)) <= columns[d].wip
  BY DEF WipHolds
<1>4. CASE LiveIn(tasks', d) \subseteq LiveIn(tasks, d)
  <2>1. Cardinality(LiveIn(tasks', d)) <= Cardinality(LiveIn(tasks, d))
    BY <1>2, <1>4, FS_Subset
  <2> QED
    BY <1>1, <1>2, <1>3, <2>1
<1>5. CASE ~(LiveIn(tasks', d) \subseteq LiveIn(tasks, d))
  <2> DEFINE old == LiveIn(tasks, d) \ {t}
             new == LiveIn(tasks', d)
  <2>1. d = c /\ HasRoom(c, 1, t) /\ new \subseteq old \cup {t} /\ t \notin old
    BY <1>1, <1>5
  <2>2. Cardinality(old) + 1 <= columns[d].wip
    BY <2>1 DEF HasRoom
  <2>3. IsFiniteSet(old) /\ Cardinality(old) \in Nat
    BY TasksFinite DEF LiveIn
  <2>4. IsFiniteSet(old \cup {t}) /\ Cardinality(old \cup {t}) = Cardinality(old) + 1
    BY <2>1, <2>3, FS_AddElement
  <2>5. Cardinality(new) <= Cardinality(old \cup {t})
    BY <2>1, <2>4, FS_Subset
  <2> HIDE DEF old
  <2> QED
    BY <1>1, <1>2, <2>2, <2>3, <2>4, <2>5
<1> QED
  BY <1>4, <1>5

\* The row of one task is written, and the columns are numbered or not.
LEMMA WrittenRow ==
    ASSUME BoardAssumption, TypeOK, WipHolds, NEW t \in Tasks, NEW row \in TaskRow, NEW f, NEW C,
           f = [tasks EXCEPT ![t] = row],
           tasks' = f \/ tasks' = Normalized(f, C), UNCHANGED columns,
           row.status \in {"live", "archived", "deleted"} => row.column \in Present,
           \/ row.status # "live"
           \/ tasks[t].status = "live" /\ row.column = tasks[t].column
           \/ HasRoom(row.column, 1, t)
    PROVE  TypeOK' /\ WipHolds'
<1>1. f \in [Tasks -> TaskRow] /\ f[t] = row /\ \A k \in Tasks \ {t} : f[k] = tasks[k]
  BY DEF TypeOK
<1>2. /\ tasks' \in [Tasks -> TaskRow]
      /\ \A k \in Tasks : tasks'[k].status = f[k].status /\ tasks'[k].column = f[k].column
      /\ \A c : LiveIn(tasks', c) = LiveIn(f, c)
  <2>1. CASE tasks' = f
    BY <1>1, <2>1
  <2>2. CASE tasks' = Normalized(f, C)
    <3>1. /\ Normalized(f, C) \in [Tasks -> TaskRow]
          /\ \A k \in Tasks : /\ Normalized(f, C)[k].status = f[k].status
                              /\ Normalized(f, C)[k].column = f[k].column
          /\ \A c : LiveIn(Normalized(f, C), c) = LiveIn(f, c)
      BY <1>1, NormalizedRows, Zenon
    <3> QED
      BY <2>2, <3>1
  <2> QED
    BY <2>1, <2>2
<1>3. TypeOK'
  <2>1. \A k \in Tasks : tasks'[k].status \in {"live", "archived", "deleted"} =>
           tasks'[k].column \in Present
    BY <1>1, <1>2 DEF TypeOK, Stored
  <2> QED
    BY <1>2, <2>1 DEF TypeOK, Stored, Present
<1>4. WipHolds'
  <2>1. CASE row.status # "live"
    <3>1. \A c \in Columns : LiveIn(tasks', c) \subseteq LiveIn(tasks, c)
      BY <1>1, <1>2, <2>1 DEF LiveIn
    <3>2. CASE Columns = {}
      BY <3>2 DEF WipHolds, Present
    <3>3. ASSUME NEW c \in Columns PROVE WipHolds'
      BY <3>1, ArrivalKeepsLimits
    <3> QED
      BY <3>2, <3>3
  <2>2. CASE row.status = "live"
    <3>1. row.column \in Columns
      BY <2>2 DEF Present
    <3>2. /\ \A d \in Columns \ {row.column} : LiveIn(tasks', d) \subseteq LiveIn(tasks, d)
          /\ LiveIn(tasks', row.column) \subseteq LiveIn(tasks, row.column) \cup {t}
      BY <1>1, <1>2, <2>2 DEF LiveIn
    <3>3. tasks[t].status = "live" /\ row.column = tasks[t].column =>
             LiveIn(tasks', row.column) \subseteq LiveIn(tasks, row.column)
      BY <1>1, <1>2, <2>2 DEF LiveIn
    <3> QED
      BY <2>2, <3>1, <3>2, <3>3, ArrivalKeepsLimits
  <2> QED
    BY <2>1, <2>2
<1> QED
  BY <1>3, <1>4

\* The place move() gives is a natural number.
LEMMA PlaceTyped ==
    ASSUME BoardAssumption, TypeOK, NEW t \in Tasks, NEW c \in Columns,
           NEW order \in 1 .. MaxOrder \cup {None}
    PROVE  (IF order = None THEN Largest({tasks[k].position : k \in LiveIn(tasks, c) \ {t}}) + 1
            ELSE order) \in Nat
<1> DEFINE S == LiveIn(tasks, c) \ {t}
           P == {tasks[k].position : k \in S}
<1>1. IsFiniteSet(S) /\ \A k \in S : tasks[k].position \in Nat
  BY TasksFinite DEF LiveIn, TypeOK, TaskRow
<1> HIDE DEF S
<1>2. P \subseteq Nat /\ IsFiniteSet(P)
  BY <1>1, PositionsFinite
<1> HIDE DEF P
<1>3. Largest(P) \in Nat
  BY <1>2, LargestIsAbove
<1>4. Largest(P) + 1 \in Nat /\ (order # None => order \in Nat)
  BY <1>3
<1> QED
  BY <1>4 DEF P, S

\* What a move writes.
LEMMA MoveWrites ==
    ASSUME BoardAssumption, TypeOK, NEW t \in Tasks, NEW c \in Columns,
           NEW order \in 1 .. MaxOrder \cup {None}, MoveTask(t, c, order)
    PROVE  \E row \in TaskRow :
             /\ row.status = "live" /\ row.column = c
             /\ tasks' = Normalized([tasks EXCEPT ![t] = row], {tasks[t].column, c})
<1> DEFINE place == IF order = None
                    THEN Largest({tasks[k].position : k \in LiveIn(tasks, c) \ {t}}) + 1
                    ELSE order
           row == [tasks[t] EXCEPT !.column = c, !.position = place]
<1>1. place \in Nat
  BY PlaceTyped
<1>2. tasks' = Normalized([tasks EXCEPT ![t].column = c, ![t].position = place], Disturbed(t, c))
      /\ tasks[t].status = "live"
  BY DEF MoveTask
<1> HIDE DEF place
<1>3. tasks[t] \in TaskRow /\ tasks \in [Tasks -> TaskRow]
  BY DEF TypeOK
<1>4. row \in TaskRow /\ row.status = "live" /\ row.column = c
  BY <1>1, <1>2, <1>3 DEF TaskRow
<1>5. [tasks EXCEPT ![t].column = c, ![t].position = place] = [tasks EXCEPT ![t] = row]
  BY <1>3
<1> QED
  BY <1>2, <1>4, <1>5 DEF Disturbed

\* The row a request about a task writes leaves the board, or is stored in a column of it
\* and arrives there with room for it, if it arrives at all.
Admitted(t, row) ==
    /\ row.status \in {"live", "archived", "deleted", "away"}
    /\ row.status # "away" => row.column \in Present
    /\ \/ row.status # "live"
       \/ tasks[t].status = "live" /\ row.column = tasks[t].column
       \/ HasRoom(row.column, 1, t)

Written(t, row, C) ==
    \/ tasks' = [tasks EXCEPT ![t] = row]
    \/ tasks' = Normalized([tasks EXCEPT ![t] = row], C)

\* A request about a task writes that task's row, admitted, and numbers columns or not.
LEMMA TaskWrites ==
    ASSUME BoardAssumption, TypeOK, NEW t \in Tasks, OnTask(t)
    PROVE  \E row \in TaskRow : Admitted(t, row) /\ \E C : Written(t, row, C)
<1>0. tasks \in [Tasks -> TaskRow] /\ tasks[t] \in TaskRow
  BY DEF TypeOK
<1>1. ASSUME NEW c \in Columns, CreateTask(t, c)
      PROVE  \E row \in TaskRow : Admitted(t, row) /\ \E C : Written(t, row, C)
  <2> DEFINE row == [NoTask EXCEPT !.status = "live", !.column = c]
  <2>1. row \in TaskRow /\ row.status = "live" /\ row.column = c
    BY DEF NoTask, TaskRow
  <2>2. /\ tasks' = Normalized([tasks EXCEPT ![t] = row], {c})
        /\ c \in Present /\ HasRoom(c, 1, t)
    BY <1>1 DEF CreateTask
  <2> HIDE DEF row
  <2> QED
    BY <2>1, <2>2 DEF Admitted, Written
<1>2. ASSUME NEW c \in Columns, PatchTask(t, c)
      PROVE  \E row \in TaskRow : Admitted(t, row) /\ \E C : Written(t, row, C)
  <2> DEFINE row == [tasks[t] EXCEPT !.column = c]
  <2>1. row \in TaskRow /\ row.status = tasks[t].status /\ row.column = c
    BY <1>0 DEF TaskRow
  <2>2. /\ tasks' = [tasks EXCEPT ![t] = row] /\ Stored(t)
        /\ c \in Present /\ (c # tasks[t].column => HasRoom(c, 1, t))
    BY <1>0, <1>2 DEF PatchTask
  <2> HIDE DEF row
  <2> QED
    BY <2>1, <2>2 DEF Admitted, Written, Stored
<1>3. ASSUME NEW c \in Columns, NEW order \in 1 .. MaxOrder \cup {None}, MoveTask(t, c, order)
      PROVE  \E row \in TaskRow : Admitted(t, row) /\ \E C : Written(t, row, C)
  <2>1. c \in Present /\ HasRoom(c, 1, t)
    BY <1>3 DEF MoveTask
  <2>2. PICK row \in TaskRow :
           /\ row.status = "live" /\ row.column = c
           /\ tasks' = Normalized([tasks EXCEPT ![t] = row], {tasks[t].column, c})
    BY <1>3, MoveWrites
  <2> QED
    BY <2>1, <2>2 DEF Admitted, Written
<1>4. ASSUME NEW status \in {"archived", "deleted"}, RemoveTask(t, status)
      PROVE  \E row \in TaskRow : Admitted(t, row) /\ \E C : Written(t, row, C)
  <2> DEFINE row == [tasks[t] EXCEPT !.status = status]
  <2>1. row \in TaskRow /\ row.status = status /\ row.column = tasks[t].column
    BY <1>0 DEF TaskRow
  <2>2. /\ tasks' = Normalized([tasks EXCEPT ![t] = row], {tasks[t].column})
        /\ tasks[t].column \in Present
    BY <1>0, <1>4 DEF RemoveTask, TypeOK, Stored
  <2> HIDE DEF row
  <2> QED
    BY <2>1, <2>2 DEF Admitted, Written
<1>5. CASE UnarchiveTask(t)
  <2> DEFINE row == [tasks[t] EXCEPT !.status = "live"]
  <2>1. row \in TaskRow /\ row.status = "live" /\ row.column = tasks[t].column
    BY <1>0 DEF TaskRow
  <2>2. /\ tasks' = Normalized([tasks EXCEPT ![t] = row], {tasks[t].column})
        /\ tasks[t].column \in Present /\ HasRoom(tasks[t].column, 1, t)
    BY <1>0, <1>5 DEF UnarchiveTask, TypeOK, Stored
  <2> HIDE DEF row
  <2> QED
    BY <2>1, <2>2 DEF Admitted, Written
<1>6. CASE TaskElsewhere(t)
  <2> DEFINE row == [NoTask EXCEPT !.status = "away"]
  <2>1. row \in TaskRow /\ row.status = "away"
    BY DEF NoTask, TaskRow
  <2>2. tasks' = [tasks EXCEPT ![t] = row]
    BY <1>6 DEF TaskElsewhere
  <2> HIDE DEF row
  <2> QED
    BY <2>1, <2>2 DEF Admitted, Written
<1>7. ASSUME NEW c \in Columns, NEW status \in {"live", "archived", "deleted"},
             NEW position \in 0 .. MaxOrder, BringTask(t, c, status, position)
      PROVE  \E row \in TaskRow : Admitted(t, row) /\ \E C : Written(t, row, C)
  <2> DEFINE row == [status |-> status, column |-> c, position |-> position]
  <2>1. row \in TaskRow /\ row.status = status /\ row.column = c
    BY DEF TaskRow
  <2>2. tasks' = [tasks EXCEPT ![t] = row] /\ c \in Present /\ HasRoom(c, 1, t)
    BY <1>7 DEF BringTask
  <2> HIDE DEF row
  <2> QED
    BY <2>1, <2>2 DEF Admitted, Written
<1> QED
  BY <1>1, <1>2, <1>3, <1>4, <1>5, <1>6, <1>7 DEF OnTask

\* Every request about a task keeps the invariant.
LEMMA OnTaskKeepsIInv ==
    ASSUME BoardAssumption, IInv, NEW t \in Tasks, OnTask(t)
    PROVE  IInv'
<1>1. UNCHANGED columns /\ TypeOK /\ WipHolds
  BY DEF IInv, OnTask, CreateTask, PatchTask, MoveTask, RemoveTask, UnarchiveTask,
         TaskElsewhere, BringTask
<1>2. PICK row \in TaskRow : Admitted(t, row) /\ \E C : Written(t, row, C)
  BY <1>1, TaskWrites
<1>3. PICK C : Written(t, row, C)
  BY <1>2
<1>4. TypeOK' /\ WipHolds'
  BY <1>1, <1>2, <1>3, WrittenRow DEF Admitted, Written
<1>5. ColumnsInOrder'
  BY <1>1 DEF IInv, ColumnsInOrder, Present
<1> QED
  BY <1>4, <1>5 DEF IInv

-----------------------------------------------------------------------------
(* Columns *)

\* The end of the row of columns: behind every position.
LEMMA CreateColumnKeepsIInv ==
    ASSUME BoardAssumption, IInv, NEW c \in Columns, NEW wip \in Limits, CreateColumn(c, wip)
    PROVE  IInv'
<1> DEFINE last == Largest({columns[b].position : b \in Present})
<1>1. IsFiniteSet(Present) /\ \A b \in Present : columns[b].position \in Nat
  BY FS_Subset DEF Present, IInv, TypeOK, ColumnRow, BoardAssumption
<1>2. last \in Nat /\ \A b \in Present : columns[b].position <= last
  <2> DEFINE P == {columns[b].position : b \in Present}
  <2>1. P \subseteq Nat /\ IsFiniteSet(P) /\ \A b \in Present : columns[b].position \in P
    BY <1>1, PositionsFinite
  <2> HIDE DEF P
  <2>2. Largest(P) \in Nat /\ \A m \in P : m <= Largest(P)
    BY <2>1, LargestIsAbove
  <2> QED
    BY <2>1, <2>2 DEF P
<1>3. /\ columns' = [columns EXCEPT ![c] = [exists |-> TRUE, wip |-> wip, position |-> last + 1]]
      /\ c \notin Present /\ UNCHANGED tasks
  BY DEF CreateColumn
<1> HIDE DEF last
<1>4. /\ columns' \in [Columns -> ColumnRow]
      /\ columns'[c].exists /\ columns'[c].wip = wip /\ columns'[c].position = last + 1
      /\ \A d \in Columns \ {c} : columns'[d] = columns[d]
  BY <1>2, <1>3 DEF IInv, TypeOK, ColumnRow
<1>5. Present' = Present \cup {c}
  BY <1>4 DEF Present
<1>6. TypeOK'
  BY <1>3, <1>4, <1>5 DEF IInv, TypeOK, Stored
<1>7. WipHolds'
  <2>1. LiveIn(tasks, c) = {}
    BY <1>3 DEF LiveIn, IInv, TypeOK, Stored
  <2>2. Cardinality(LiveIn(tasks, c)) = 0 /\ wip \in Nat
    BY <2>1, FS_EmptySet DEF BoardAssumption
  <2> QED
    BY <1>3, <1>4, <1>5, <2>2 DEF IInv, WipHolds, Present
<1>8. ColumnsInOrder'
  BY <1>1, <1>2, <1>3, <1>4, <1>5 DEF IInv, ColumnsInOrder, Present
<1> QED
  BY <1>6, <1>7, <1>8 DEF IInv

\* The shift of the siblings makes room at `to`, fills the gap at `from` and lets no two
\* positions meet.
LEMMA ShiftIsInjective ==
    ASSUME NEW from \in Nat, NEW to \in Nat, NEW p \in Nat, NEW q \in Nat,
           p # from, q # from, p # q
    PROVE  /\ Shifted(p, from, to) \in Nat /\ Shifted(p, from, to) # Shifted(q, from, to)
           /\ from # to => Shifted(p, from, to) # to
BY DEF Shifted

\* A column that moves shifts its siblings, and its new limit is one its tasks respect.
LEMMA PatchColumnKeepsIInv ==
    ASSUME BoardAssumption, IInv, NEW c \in Columns, NEW wip \in Limits,
           NEW position \in {columns[c].position} \cup 1 .. MaxOrder,
           PatchColumn(c, wip, position)
    PROVE  IInv'
<1> DEFINE from    == columns[c].position
           clamped == IF position > Cardinality(Present) THEN Cardinality(Present) ELSE position
           to      == IF position = from THEN from ELSE clamped
<1>1. \A d \in Columns : columns[d] \in ColumnRow /\ columns[d].position \in Nat
  BY DEF IInv, TypeOK, ColumnRow
<1>2. from \in Nat /\ to \in Nat
  <2>1. Cardinality(Present) \in Nat
    BY FS_Subset, FS_CardinalityType DEF Present, BoardAssumption
  <2> QED
    BY <1>1, <2>1
<1>3. /\ c \in Present /\ (wip # columns[c].wip => LimitAllowed(c, wip)) /\ UNCHANGED tasks
      /\ columns' = [d \in Columns |->
            IF d = c THEN [columns[c] EXCEPT !.position = to, !.wip = wip]
            ELSE IF d \in Present /\ from # to
                 THEN [columns[d] EXCEPT !.position = Shifted(@, from, to)]
            ELSE columns[d]]
  BY DEF PatchColumn
<1> HIDE DEF to, from
<1>4. /\ columns'[c] \in ColumnRow /\ columns'[c].exists /\ columns'[c].wip = wip
      /\ columns'[c].position = to
  BY <1>1, <1>2, <1>3 DEF ColumnRow, Present
<1>5. ASSUME NEW d \in Columns \ {c}
      PROVE  /\ columns'[d] \in ColumnRow /\ columns'[d].exists = columns[d].exists
             /\ columns'[d].wip = columns[d].wip
             /\ d \in Present => columns'[d].position =
                   IF from # to THEN Shifted(columns[d].position, from, to)
                   ELSE columns[d].position
  <2>1. CASE d \in Present /\ from # to
    <3>1. columns[d].position # from
      BY <1>3, <2>1 DEF IInv, ColumnsInOrder, from
    <3>2. Shifted(columns[d].position, from, to) \in Nat
      BY <1>1, <1>2 DEF Shifted
    <3>3. columns'[d] = [columns[d] EXCEPT !.position = Shifted(columns[d].position, from, to)]
      BY <1>3, <2>1
    <3> QED
      BY <1>1, <2>1, <3>2, <3>3 DEF ColumnRow
  <2>2. CASE ~(d \in Present /\ from # to)
    BY <1>1, <1>3, <2>2
  <2> QED
    BY <2>1, <2>2
<1>6. Present' = Present /\ columns' \in [Columns -> ColumnRow]
  <2>1. \A d \in Columns : columns'[d] \in ColumnRow /\ columns'[d].exists = columns[d].exists
    BY <1>3, <1>4, <1>5 DEF Present
  <2> QED
    BY <1>3, <2>1 DEF Present
<1>7. TypeOK'
  BY <1>3, <1>6 DEF IInv, TypeOK, Stored
<1>8. WipHolds'
  BY <1>3, <1>4, <1>5, <1>6 DEF IInv, WipHolds, LimitAllowed, Present
<1>9. ColumnsInOrder'
  <2> SUFFICES ASSUME NEW d \in Present, NEW e \in Present, d # e
               PROVE  columns'[d].position # columns'[e].position
    BY <1>6 DEF ColumnsInOrder
  <2>1. d \in Columns /\ e \in Columns /\ columns[d].position # columns[e].position
        /\ (d # c => columns[d].position # from) /\ (e # c => columns[e].position # from)
    BY <1>3 DEF IInv, ColumnsInOrder, Present, from
  <2>2. CASE from = to
    BY <1>4, <1>5, <2>1, <2>2
  <2>3. CASE from # to
    <3>1. CASE d = c \/ e = c
      <4>1. \A p \in Nat : p # from => Shifted(p, from, to) # to
        BY <1>2, <2>3 DEF Shifted
      <4> QED
        BY <1>1, <1>4, <1>5, <2>1, <2>3, <3>1, <4>1
    <3>2. CASE d # c /\ e # c
      <4>1. Shifted(columns[d].position, from, to) # Shifted(columns[e].position, from, to)
        BY <1>1, <1>2, <2>1, <3>2, ShiftIsInjective
      <4>2. /\ columns'[d].position = Shifted(columns[d].position, from, to)
            /\ columns'[e].position = Shifted(columns[e].position, from, to)
        BY <1>5, <2>1, <2>3, <3>2
      <4> QED
        BY <4>1, <4>2
    <3> QED
      BY <3>1, <3>2
  <2> QED
    BY <2>2, <2>3
<1> QED
  BY <1>7, <1>8, <1>9 DEF IInv

\* reorder() gives each column of the board a position of its own.
LEMMA ReorderKeepsIInv ==
    ASSUME BoardAssumption, IInv, NEW order \in [Present -> Places],
           Reorder(order)
    PROVE  IInv'
<1>1. \A c \in Present : order[c] \in Nat
  <2>1. Cardinality(Present) \in Nat
    BY FS_Subset, FS_CardinalityType DEF Present, BoardAssumption
  <2> QED
    BY <2>1 DEF Places
<1>2. ASSUME NEW c \in Columns
      PROVE  /\ columns'[c] \in ColumnRow /\ columns'[c].exists = columns[c].exists
             /\ columns'[c].wip = columns[c].wip
             /\ c \in Present => columns'[c].position = order[c]
  <2>1. columns[c] \in ColumnRow
    BY DEF IInv, TypeOK
  <2> QED
    BY <1>1, <2>1 DEF Reorder, ColumnRow
<1>3. Present' = Present /\ columns' \in [Columns -> ColumnRow] /\ UNCHANGED tasks
  BY <1>2 DEF Present, Reorder
<1>4. \A c, d \in Present : c # d => order[c] # order[d]
  BY DEF Reorder
<1> QED
  BY <1>2, <1>3, <1>4 DEF IInv, TypeOK, WipHolds, ColumnsInOrder, Present, Stored

\* The tasks of a deleted column arrive together where there is room for all of them, and
\* the columns that stay are numbered in their old order.
LEMMA DeleteColumnKeepsIInv ==
    ASSUME BoardAssumption, IInv, NEW c \in Columns, NEW to \in Columns, DeleteColumn(c, to)
    PROVE  IInv'
<1> DEFINE rest == Present \ {c}
           moved == LiveIn(tasks, c)
           lost == Lost(c)
           Before(d) == {e \in rest : columns[e].position <= columns[d].position}
<1>1. /\ c \in Present /\ to \in rest
      /\ moved # {} => HasRoom(to, Cardinality(moved), None)
      /\ tasks' = [t \in Tasks |->
            IF t \in moved THEN [tasks[t] EXCEPT !.column = to]
            ELSE IF t \in lost THEN [NoTask EXCEPT !.status = "lost"]
            ELSE tasks[t]]
      /\ columns' = [d \in Columns |->
            IF d = c THEN NoColumn
            ELSE IF d \in rest THEN [columns[d] EXCEPT !.position = Cardinality(Before(d))]
            ELSE columns[d]]
  BY DEF DeleteColumn, Moved
<1>2. \A d \in Columns : columns[d] \in ColumnRow
  BY DEF IInv, TypeOK
<1>3. IsFiniteSet(rest) /\ rest \subseteq Columns
  BY FS_Subset DEF Present, BoardAssumption
<1>4. \A d : /\ IsFiniteSet(Before(d)) /\ Cardinality(Before(d)) \in Nat
             /\ Before(d) \in SUBSET rest
  <2>1. \A d : Before(d) \in SUBSET rest
    OBVIOUS
  <2> HIDE DEF Before
  <2> QED
    BY <1>3, <2>1, FS_Subset, FS_CardinalityType
<1> HIDE DEF Before
<1>5. NoColumn \in ColumnRow /\ ~NoColumn.exists
  BY DEF NoColumn, ColumnRow, BoardAssumption
<1>6. /\ \A d \in rest : /\ columns'[d] = [columns[d] EXCEPT !.position = Cardinality(Before(d))]
                         /\ columns'[d] \in ColumnRow
                         /\ columns'[d].exists /\ columns'[d].wip = columns[d].wip
                         /\ columns'[d].position = Cardinality(Before(d))
      /\ \A d \in Columns \ rest : columns'[d] \in ColumnRow /\ ~columns'[d].exists
  BY <1>1, <1>2, <1>3, <1>4, <1>5 DEF Present, ColumnRow
<1>7. Present' = rest /\ columns' \in [Columns -> ColumnRow]
  <2>1. columns' \in [Columns -> ColumnRow]
    BY <1>1, <1>3, <1>6
  <2> QED
    BY <1>3, <1>6, <2>1 DEF Present
<1>8. \A t \in Tasks :
         /\ tasks'[t] \in TaskRow
         /\ t \in moved => /\ tasks'[t].status = "live" /\ tasks'[t].column = to
         /\ t \notin moved /\ t \in lost => tasks'[t].status = "lost"
         /\ t \notin moved /\ t \notin lost => tasks'[t] = tasks[t]
  BY <1>1 DEF IInv, TypeOK, TaskRow, NoTask, LiveIn
<1>9. TypeOK'
  <2>1. \A t \in Tasks : tasks'[t].status \in {"live", "archived", "deleted"} =>
           tasks'[t].column \in rest
    BY <1>1, <1>8 DEF IInv, TypeOK, Stored, Lost, Moved
  <2>2. tasks' \in [Tasks -> TaskRow]
    BY <1>1, <1>8
  <2> QED
    BY <1>7, <2>1, <2>2 DEF TypeOK, Stored
<1>10. WipHolds'
  <2> SUFFICES ASSUME NEW d \in rest, columns[d].wip # 0
               PROVE  Cardinality(LiveIn(tasks', d)) <= columns[d].wip
    BY <1>6, <1>7 DEF WipHolds
  <2>1. columns[d].wip \in Nat /\ Cardinality(LiveIn(tasks, d)) <= columns[d].wip
    BY <1>2, <1>3 DEF IInv, WipHolds, ColumnRow, BoardAssumption
  <2>2. CASE d # to \/ moved = {}
    <3>1. LiveIn(tasks', d) = LiveIn(tasks, d)
      BY <1>8, <2>2 DEF LiveIn, Lost, Moved
    <3> QED
      BY <2>1, <3>1
  <2>3. CASE d = to /\ moved # {}
    <3> DEFINE old == LiveIn(tasks, d)
    <3>1. LiveIn(tasks', d) \subseteq old \cup moved
      BY <1>8, <2>3 DEF LiveIn, Lost, Moved
    <3>2. old \ {None} = old
      BY DEF LiveIn, BoardAssumption
    <3>3. Cardinality(old) + Cardinality(moved) <= columns[d].wip
      BY <1>1, <2>3, <3>2 DEF HasRoom
    <3>4. /\ IsFiniteSet(old) /\ IsFiniteSet(moved) /\ Cardinality(old) \in Nat
          /\ Cardinality(moved) \in Nat
      BY TasksFinite DEF LiveIn
    <3> HIDE DEF old, moved
    <3>5. /\ IsFiniteSet(old \cup moved) /\ Cardinality(old \cup moved) \in Nat
          /\ Cardinality(old \cup moved)
               = Cardinality(old) + Cardinality(moved) - Cardinality(old \cap moved)
          /\ Cardinality(old \cap moved) \in Nat
      BY <3>4, FS_Union, FS_Subset, FS_CardinalityType
    <3>6. /\ Cardinality(LiveIn(tasks', d)) <= Cardinality(old \cup moved)
          /\ Cardinality(LiveIn(tasks', d)) \in Nat
      BY <3>1, <3>5, FS_Subset, FS_CardinalityType
    <3> QED
      BY <2>1, <3>3, <3>4, <3>5, <3>6
  <2> QED
    BY <2>2, <2>3
<1>11. ColumnsInOrder'
  <2> SUFFICES ASSUME NEW d \in rest, NEW e \in rest, d # e
               PROVE  columns'[d].position # columns'[e].position
    BY <1>7 DEF ColumnsInOrder
  <2> SUFFICES ASSUME Cardinality(Before(d)) = Cardinality(Before(e))
               PROVE  FALSE
    BY <1>6
  <2>1. /\ \A b \in rest : columns[b].position \in Nat
        /\ columns[d].position # columns[e].position
    BY <1>2, <1>3 DEF IInv, ColumnsInOrder, ColumnRow
  <2>2. Before(d) \subseteq Before(e) \/ Before(e) \subseteq Before(d)
    BY <2>1 DEF Before
  <2>3. Before(d) = Before(e)
    BY <1>4, <2>2, FS_Subset
  <2>4. d \in Before(e) /\ e \in Before(d)
    BY <2>1, <2>3 DEF Before
  <2> QED
    BY <2>1, <2>4 DEF Before
<1> QED
  BY <1>9, <1>10, <1>11 DEF IInv

-----------------------------------------------------------------------------
(* Theorems *)

\* The invariant holds in every reachable state.
THEOREM BoardInvariant == Spec => []IInv
<1>0. BoardAssumption
  BY BoardAssumption
<1>1. Init => IInv
  <2> SUFFICES ASSUME Init PROVE IInv
    OBVIOUS
  <2>1. PICK start \in SUBSET Columns \ {{}} :
           \E place \in [start -> 0 .. Cardinality(start) - 1] :
              /\ \A c, d \in start : c # d => place[c] # place[d]
              /\ columns = [c \in Columns |->
                     IF c \in start THEN [exists |-> TRUE, position |-> place[c], wip |-> 0]
                     ELSE NoColumn]
    BY DEF Init
  <2>2. PICK place \in [start -> 0 .. Cardinality(start) - 1] :
          /\ \A c, d \in start : c # d => place[c] # place[d]
          /\ columns = [c \in Columns |->
                 IF c \in start THEN [exists |-> TRUE, position |-> place[c], wip |-> 0]
                 ELSE NoColumn]
    BY <2>1
  <2>3. Cardinality(start) \in Nat /\ \A c \in start : place[c] \in Nat
    BY <1>0, FS_Subset, FS_CardinalityType DEF BoardAssumption
  <2>4. /\ columns \in [Columns -> ColumnRow] /\ Present = start
        /\ \A c \in Present : columns[c].position = place[c] /\ columns[c].wip = 0
    BY <1>0, <2>2, <2>3 DEF NoColumn, ColumnRow, Present, BoardAssumption
  <2>5. tasks = [t \in Tasks |-> NoTask] /\ NoTask \in TaskRow /\ NoTask.status = "none"
    BY DEF Init, NoTask, TaskRow
  <2> QED
    BY <2>2, <2>4, <2>5 DEF IInv, TypeOK, Stored, WipHolds, ColumnsInOrder
<1>2. IInv /\ [Next]_vars => IInv'
  <2> SUFFICES ASSUME IInv, [Next]_vars PROVE IInv'
    OBVIOUS
  <2>1. ASSUME NEW t \in Tasks, OnTask(t)
        PROVE  IInv'
    BY <1>0, <2>1, OnTaskKeepsIInv
  <2>2. ASSUME NEW c \in Columns, OnColumn(c)
        PROVE  IInv'
    BY <1>0, <2>2, CreateColumnKeepsIInv, PatchColumnKeepsIInv, DeleteColumnKeepsIInv DEF OnColumn
  <2>3. ASSUME NEW order \in [Present -> Places], Reorder(order)
        PROVE  IInv'
    BY <1>0, <2>3, ReorderKeepsIInv
  <2>4. CASE UNCHANGED vars
    BY <2>4 DEF vars, IInv, TypeOK, WipHolds, ColumnsInOrder, Present, Stored, LiveIn
  <2> QED
    BY <2>1, <2>2, <2>3, <2>4 DEF Next
<1> QED
  BY <1>1, <1>2, PTL DEF Spec

\* Every kept task is in a column of its board: destroy of a column leaves none behind.
THEOREM TasksHaveColumns == Spec => []TypeOK
<1>1. IInv => TypeOK
  BY DEF IInv
<1> QED
  BY <1>1, BoardInvariant, PTL

\* check_wip_limit and validate_wip_limit together keep every column within its limit.
THEOREM LimitsHold == Spec => []WipHolds
<1>1. IInv => WipHolds
  BY DEF IInv
<1> QED
  BY <1>1, BoardInvariant, PTL

\* Columns never share a position, through creation, shift, reorder and deletion.
THEOREM ColumnsStayInOrder == Spec => []ColumnsInOrder
<1>1. IInv => ColumnsInOrder
  BY DEF IInv
<1> QED
  BY <1>1, BoardInvariant, PTL

\* _normalize_positions of both columns of a move numbers each from 1 without a gap, as
\* the ranks of a column's tasks are its first numbers.
THEOREM MovesNumberBoth == Spec => MoveNumbersBoth
<1>0. BoardAssumption
  BY BoardAssumption
<1>1. IInv /\ [Next]_vars =>
        [\A t \in Tasks, c \in Columns, order \in 1 .. MaxOrder \cup {None} :
            tasks'[t].column = c /\ MoveTask(t, c, order) =>
               \A d \in {tasks[t].column, c} :
                  {tasks'[u].position : u \in LiveIn(tasks', d)}
                     = 1 .. Cardinality(LiveIn(tasks', d))]_vars
  <2> SUFFICES ASSUME IInv, NEW t \in Tasks, NEW c \in Columns,
                      NEW order \in 1 .. MaxOrder \cup {None}, MoveTask(t, c, order),
                      NEW d \in {tasks[t].column, c}
               PROVE  {tasks'[u].position : u \in LiveIn(tasks', d)}
                         = 1 .. Cardinality(LiveIn(tasks', d))
    OBVIOUS
  <2>1. TypeOK /\ d \in Columns
    BY DEF IInv, TypeOK, Stored, MoveTask, Present
  <2>2. PICK row \in TaskRow :
           tasks' = Normalized([tasks EXCEPT ![t] = row], {tasks[t].column, c})
    BY <1>0, <2>1, MoveWrites
  <2> DEFINE f == [tasks EXCEPT ![t] = row]
             C == {tasks[t].column, c}
  <2>3. f \in [Tasks -> TaskRow]
    BY <2>1 DEF TypeOK
  <2>4. tasks' = Normalized(f, C) /\ d \in C
    BY <2>2
  <2> HIDE DEF f, C
  <2>5. LiveIn(tasks', d) = LiveIn(f, d)
    BY <1>0, <2>3, <2>4, NormalizedRows
  <2>6. {Normalized(f, C)[u].position : u \in LiveIn(f, d)} = 1 .. Cardinality(LiveIn(f, d))
    BY <1>0, <2>1, <2>3, <2>4, NormalizedCounts
  <2> QED
    BY <2>4, <2>5, <2>6
<1> QED
  BY <1>1, BoardInvariant, PTL DEF Spec, MoveNumbersBoth

\* No request takes the row of a live task away: CASCADE finds only what destroy left.
THEOREM NoLiveTaskIsLost == Spec => LiveTasksSurvive
<1>0. BoardAssumption
  BY BoardAssumption
<1>1. IInv /\ [Next]_vars =>
        [\A t \in Tasks : tasks[t].status = "live" => tasks'[t].status # "lost"]_vars
  <2> SUFFICES ASSUME IInv, Next, NEW t \in Tasks, tasks[t].status = "live"
               PROVE  tasks'[t].status # "lost"
    OBVIOUS
  <2>0. TypeOK /\ tasks \in [Tasks -> TaskRow] /\ tasks[t] \in TaskRow
    BY DEF IInv, TypeOK
  <2>1. ASSUME NEW k \in Tasks, OnTask(k)
        PROVE  tasks'[t].status # "lost"
    <3>1. PICK row \in TaskRow : Admitted(k, row) /\ \E C : Written(k, row, C)
      BY <1>0, <2>0, <2>1, TaskWrites
    <3>2. PICK C : Written(k, row, C)
      BY <3>1
    <3> DEFINE f == [tasks EXCEPT ![k] = row]
    <3>3. f \in [Tasks -> TaskRow] /\ f[t].status # "lost"
      BY <2>0, <3>1 DEF Admitted
    <3> HIDE DEF f
    <3>4. Normalized(f, C)[t].status = f[t].status
      BY <1>0, <3>3, NormalizedRows
    <3> QED
      BY <3>2, <3>3, <3>4 DEF Written, f
  <2>2. ASSUME NEW c \in Columns, OnColumn(c)
        PROVE  tasks'[t].status # "lost"
    <3>1. CASE \E to \in Columns : DeleteColumn(c, to)
      BY <2>0, <3>1 DEF DeleteColumn, Moved, Lost, LiveIn, TaskRow
    <3>2. CASE UNCHANGED tasks
      BY <3>2
    <3> QED
      BY <2>2, <3>1, <3>2 DEF OnColumn, CreateColumn, PatchColumn
  <2>3. ASSUME NEW order \in [Present -> Places], Reorder(order)
        PROVE  tasks'[t].status # "lost"
    BY <2>3 DEF Reorder
  <2> QED
    BY <2>1, <2>2, <2>3 DEF Next
<1> QED
  BY <1>1, BoardInvariant, PTL DEF Spec, LiveTasksSurvive
=============================================================================
