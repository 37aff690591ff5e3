-------------------------- MODULE ChecklistProofs --------------------------
(***************************************************************************)
(* What holds of ChecklistCommands however many workers overlap: the type  *)
(* invariant, that the mission changes are a log of which nothing is lost, *)
(* and that every row that was added is announced in it.  And what holds   *)
(* until a worker saves a snapshot that is out of date: the tables of the  *)
(* checklists agree with each other.                                       *)
(***************************************************************************)
EXTENDS ChecklistCommands, FiniteSetTheorems, TLAPS

-----------------------------------------------------------------------------
(* Tables and the operators that change them.                              *)

\* What the operators on tables leave alone: the changes, and who added a row.
KeepsTheLog(old, new) ==
  /\ new.changes = old.changes
  /\ \A t \in DOMAIN new.tasks :
       \/ new.tasks[t].by = 0
       \/ t \in DOMAIN old.tasks /\ new.tasks[t].by = old.tasks[t].by

\* A table stays one when some of its rows go.
LEMMA RestrictedTable ==
  ASSUME NEW f, NEW Keys, NEW Values, IsTable(f, Keys, Values), NEW S, S \subseteq DOMAIN f
  PROVE  IsTable(Restrict(f, S), Keys, Values)
  BY DEF IsTable, Restrict, Range

\* A table stays one when rows of its form are written over it.
LEMMA WrittenTable ==
  ASSUME NEW f, NEW g, NEW Keys, NEW Values,
         IsTable(f, Keys, Values), IsTable(g, Keys, Values)
  PROVE  IsTable(Written(f, g), Keys, Values)
  BY DEF IsTable, Range, Written

LEMMA PutTable ==
  ASSUME NEW f, NEW Keys, NEW Values, IsTable(f, Keys, Values),
         NEW k \in Keys, NEW v \in Values
  PROVE  IsTable(Put(f, k, v), Keys, Values)
  <1>1. IsTable([x \in {k} |-> v], Keys, Values)
    BY DEF IsTable, Range
  <1>2. QED  BY <1>1, WrittenTable DEF Put

LEMMA ChangedRow ==
  ASSUME NEW f, NEW Keys, NEW Values, IsTable(f, Keys, Values),
         NEW k \in DOMAIN f, NEW v \in Values
  PROVE  IsTable([f EXCEPT ![k] = v], Keys, Values)
  BY DEF IsTable, Range

LEMMA SavedTable ==
  ASSUME NEW stored, NEW old, NEW new, NEW Keys, NEW Values,
         IsTable(stored, Keys, Values), IsTable(new, Keys, Values)
  PROVE  IsTable(SaveDelta(stored, old, new), Keys, Values)
  <1>1. IsTable(Restrict(stored, DOMAIN stored \ (DOMAIN old \ DOMAIN new)), Keys, Values)
    BY RestrictedTable
  <1>2. QED  BY <1>1, WrittenTable DEF SaveDelta

\* A task's status is derived, a checklist's summary and counts are computed.
LEMMA SummaryType ==
  ASSUME NEW p \in Nat, NEW l \in Nat, NEW c \in Nat, NEW cl \in BOOLEAN
  PROVE  Summary(p, l, c, cl) \in Statuses
  BY DEF Summary, Statuses

LEMMA RecomputedType ==
  ASSUME NEW T, TablesOK(T), NEW l \in DOMAIN T.checklists
  PROVE  TablesOK(Recomputed(T, l)) /\ KeepsTheLog(T, Recomputed(T, l))
         /\ DOMAIN Recomputed(T, l).checklists = DOMAIN T.checklists
         /\ \A t \in DOMAIN Recomputed(T, l).tasks :
              t \in DOMAIN T.tasks /\ Recomputed(T, l).tasks[t].by = T.tasks[t].by
  <1> DEFINE tasks == [t \in DOMAIN T.tasks |->
                         IF t \in TasksOf(T, l)
                         THEN [T.tasks[t] EXCEPT !.status = Derived(T.tasks[t])]
                         ELSE T.tasks[t]]
             With(status) == {t \in TasksOf(T, l) : tasks[t].status = status}
             complete == {t \in TasksOf(T, l) : tasks[t].user = "COMPLETE"}
             pending  == Cardinality(TasksOf(T, l) \ complete)
             late     == Cardinality(With("LATE"))
             list == [T.checklists[l] EXCEPT
                        !.pending = pending, !.late = late, !.complete = Cardinality(complete),
                        !.status = Summary(pending, late, Cardinality(complete),
                                           With("COMPLETE_LATE") # {})]
             new == [T EXCEPT !.tasks = tasks, !.checklists[l] = list]
  <1>1. \A t \in DOMAIN T.tasks : T.tasks[t] \in TaskRecord
    BY DEF TablesOK, IsTable, Range
  <1>2. \A t \in DOMAIN T.tasks : Derived(T.tasks[t]) \in Statuses
    BY DEF Derived, Statuses
  <1>3. \A t \in DOMAIN tasks : tasks[t] \in TaskRecord /\ tasks[t].by = T.tasks[t].by
    BY <1>1, <1>2 DEF TaskRecord
  <1>4. TasksOf(T, l) \subseteq Rows
    BY DEF TablesOK, IsTable, TasksOf
  <1>5. pending \in Nat /\ late \in Nat /\ Cardinality(complete) \in Nat
    <2>1. \A S \in SUBSET TasksOf(T, l) : Cardinality(S) \in Nat
      BY <1>4, FiniteRows, FS_Subset, FS_CardinalityType
    <2>2. QED  BY <2>1
  <1>6. list \in ListRecord
    <2>1. T.checklists[l] \in ListRecord
      BY DEF TablesOK, IsTable, Range
    <2>2. Summary(pending, late, Cardinality(complete), With("COMPLETE_LATE") # {}) \in Statuses
      BY <1>5, SummaryType
    <2>3. QED  BY <2>1, <2>2, <1>5 DEF ListRecord
  <1>7. IsTable(tasks, Rows, TaskRecord)
    BY <1>3, ZenonT(60) DEF TablesOK, IsTable, Range
  <1>8. IsTable([T.checklists EXCEPT ![l] = list], Lists, ListRecord)
    <2>1. IsTable(T.checklists, Lists, ListRecord)
      BY DEF TablesOK
    <2> HIDE DEF list
    <2>2. QED  BY <1>6, <2>1, ChangedRow
  <1>9. Recomputed(T, l) = [T EXCEPT !.tasks = tasks, !.checklists = [T.checklists EXCEPT ![l] = list]]
    BY DEF Recomputed, TablesOK, Tables
  <1> HIDE DEF tasks, list
  <1>10. /\ Recomputed(T, l).tasks = tasks
         /\ Recomputed(T, l).checklists = [T.checklists EXCEPT ![l] = list]
         /\ \A x \in Tables \ {"tasks", "checklists"} : Recomputed(T, l)[x] = T[x]
         /\ Recomputed(T, l) = [x \in Tables |-> Recomputed(T, l)[x]]
    BY <1>9 DEF TablesOK, Tables
  <1>11. TablesOK(Recomputed(T, l))
    BY <1>7, <1>8, <1>10 DEF TablesOK, Tables
  <1>12. QED  BY <1>3, <1>10, <1>11 DEF KeepsTheLog, Tables, tasks

-----------------------------------------------------------------------------
(* What each command does to the tables.                                   *)

LEMMA RequestForms ==
  ASSUME NEW c \in Requests
  PROVE  /\ c.op = "create" => /\ c.list \in Lists /\ c.mode \in Modes
                              /\ c.mission \in Missions /\ c.rows \in Seq(Rows)
         /\ c.op = "row.add" => c.list \in Lists /\ c.row \in Rows /\ c.due \in BOOLEAN
         /\ c.op \in {"row.delete", "style.set", "cell.set", "status.set"}
              => c.list \in Lists /\ c.row \in Rows
         /\ c.op = "status.set" => c.user \in {"PENDING", "COMPLETE"}
         /\ c.op = "update" => c.patch \in Patches
         /\ c.op \in {"update", "delete", "upload", "publish", "join"} => c.list \in Lists
         /\ c.op = "assign" => c.row \in Rows /\ c.mission \in {"known", "unknown"}
  BY BoundsAssumption DEF AllRequests

\* Rows of R are added in tables U, with the number of the command that adds them.
AddsRows(T, U, R, by) ==
  /\ TablesOK(U) /\ U.changes = T.changes
  /\ \A t \in DOMAIN U.tasks :
       \/ t \in DOMAIN T.tasks /\ U.tasks[t].by = T.tasks[t].by
       \/ t \in R \ DOMAIN T.tasks /\ U.tasks[t].by = by

LEMMA RowsAddedType ==
  ASSUME NEW T, TablesOK(T), NEW l \in DOMAIN T.checklists, NEW R \in SUBSET Rows,
         NEW due \in BOOLEAN, NEW n \in Numbers, NEW by \in 0..MaxCommands
  PROVE  AddsRows(T, RowsAdded(T, l, R, due, n, by), R, by)
  <1> DEFINE new   == R \ DOMAIN T.tasks
             fresh == [list |-> l, user |-> "PENDING", status |-> "PENDING", due |-> due,
                       completed |-> "no", by |-> by]
             added == {n} \X new \X ColumnsOf(T, l)
             old   == [t \in DOMAIN T.tasks |->
                         IF t \in R THEN [T.tasks[t] EXCEPT !.due = due] ELSE T.tasks[t]]
             tasks == Written(old, [t \in new |-> fresh])
             cells == Written(T.cells, [k \in added |-> None])
             V     == [T EXCEPT !.tasks = tasks, !.cells = cells]
  <1>1. l \in Lists
    BY DEF TablesOK, IsTable
  <1>2. \A t \in DOMAIN T.tasks : T.tasks[t] \in TaskRecord
    BY DEF TablesOK, IsTable, Range
  <1>3. IsTable(old, Rows, TaskRecord)
    <2>1. \A t \in DOMAIN old : old[t] \in TaskRecord
      BY <1>2 DEF TaskRecord
    <2>2. QED  BY <2>1, ZenonT(60) DEF TablesOK, IsTable, Range
  <1>4. fresh \in TaskRecord
    BY <1>1 DEF TaskRecord, Statuses
  <1>5. IsTable([t \in new |-> fresh], Rows, TaskRecord)
    BY <1>4 DEF IsTable, Range
  <1>6. IsTable(tasks, Rows, TaskRecord)
    BY <1>3, <1>5, WrittenTable
  <1>7. ColumnsOf(T, l) \subseteq Numbers
    BY DEF TablesOK, IsTable, ColumnsOf
  <1>8. IsTable([k \in added |-> None], Numbers \X Rows \X Numbers, {None, "filled"})
    BY <1>7 DEF IsTable, Range
  <1>9. IsTable(cells, Numbers \X Rows \X Numbers, {None, "filled"})
    <2>1. IsTable(T.cells, Numbers \X Rows \X Numbers, {None, "filled"})
      BY DEF TablesOK
    <2>2. QED  BY <1>8, <2>1, WrittenTable
  <1>10. \A t \in DOMAIN tasks :
           \/ t \in DOMAIN T.tasks /\ tasks[t].by = T.tasks[t].by
           \/ t \in R \ DOMAIN T.tasks /\ tasks[t].by = by
    BY <1>2 DEF Written, TaskRecord
  <1> HIDE DEF tasks, cells
  <1>11. /\ V.tasks = tasks /\ V.cells = cells
         /\ \A x \in Tables \ {"tasks", "cells"} : V[x] = T[x]
         /\ V = [x \in Tables |-> V[x]]
    BY DEF TablesOK, Tables
  <1>12. TablesOK(V) /\ V.changes = T.changes /\ V.checklists = T.checklists
    BY <1>6, <1>9, <1>11 DEF TablesOK, Tables
  <1>13. RowsAdded(T, l, R, due, n, by) = Recomputed(V, l)
    BY DEF RowsAdded, tasks, cells
  <1> HIDE DEF V
  <1>14. /\ TablesOK(Recomputed(V, l)) /\ Recomputed(V, l).changes = V.changes
         /\ \A t \in DOMAIN Recomputed(V, l).tasks :
              t \in DOMAIN V.tasks /\ Recomputed(V, l).tasks[t].by = V.tasks[t].by
    BY <1>12, RecomputedType DEF KeepsTheLog
  <1>15. QED  BY <1>10, <1>11, <1>12, <1>13, <1>14 DEF AddsRows

LEMMA RowRemovedType ==
  ASSUME NEW T, TablesOK(T), NEW l \in DOMAIN T.checklists, NEW r
  PROVE  TablesOK(RowRemoved(T, l, r)) /\ KeepsTheLog(T, RowRemoved(T, l, r))
  <1> DEFINE tasks == Restrict(T.tasks, DOMAIN T.tasks \ {r})
             cells == Restrict(T.cells, {k \in DOMAIN T.cells : k[2] # r})
             V     == [T EXCEPT !.tasks = tasks, !.cells = cells]
  <1>1. IsTable(tasks, Rows, TaskRecord)
    BY RestrictedTable DEF TablesOK
  <1>2. IsTable(cells, Numbers \X Rows \X Numbers, {None, "filled"})
    BY RestrictedTable DEF TablesOK
  <1>3. \A t \in DOMAIN tasks : t \in DOMAIN T.tasks /\ tasks[t].by = T.tasks[t].by
    BY DEF Restrict
  <1> HIDE DEF tasks, cells
  <1>4. /\ V.tasks = tasks /\ V.cells = cells
        /\ \A x \in Tables \ {"tasks", "cells"} : V[x] = T[x]
        /\ V = [x \in Tables |-> V[x]]
    BY DEF TablesOK, Tables
  <1>5. TablesOK(V) /\ V.changes = T.changes /\ V.checklists = T.checklists
    BY <1>1, <1>2, <1>4 DEF TablesOK, Tables
  <1>6. RowRemoved(T, l, r) = Recomputed(V, l)
    BY DEF RowRemoved, tasks, cells
  <1> HIDE DEF V
  <1>7. TablesOK(Recomputed(V, l)) /\ KeepsTheLog(V, Recomputed(V, l))
    BY <1>5, RecomputedType
  <1>8. QED  BY <1>3, <1>4, <1>5, <1>6, <1>7 DEF KeepsTheLog

LEMMA ListRemovedType ==
  ASSUME NEW T, TablesOK(T), NEW l
  PROVE  TablesOK(ListRemoved(T, l)) /\ KeepsTheLog(T, ListRemoved(T, l))
  <1> DEFINE gone         == TasksOf(T, l)
             checklists   == Restrict(T.checklists, DOMAIN T.checklists \ {l})
             columns      == Restrict(T.columns, DOMAIN T.columns \ ColumnsOf(T, l))
             tasks        == Restrict(T.tasks, DOMAIN T.tasks \ gone)
             cells        == Restrict(T.cells, {k \in DOMAIN T.cells : k[2] \notin gone})
             publications == Restrict(T.publications,
                                      {k \in DOMAIN T.publications : T.publications[k] # l})
             assignments  == Restrict(T.assignments,
                                      {k \in DOMAIN T.assignments : T.assignments[k].row \notin gone})
             V == [T EXCEPT !.checklists = checklists, !.columns = columns, !.tasks = tasks,
                            !.cells = cells, !.publications = publications,
                            !.assignments = assignments]
  <1>1. IsTable(checklists, Lists, ListRecord) /\ IsTable(columns, Numbers, Lists)
    BY RestrictedTable DEF TablesOK
  <1>2. IsTable(tasks, Rows, TaskRecord)
    BY RestrictedTable DEF TablesOK
  <1>3. IsTable(cells, Numbers \X Rows \X Numbers, {None, "filled"})
    BY RestrictedTable DEF TablesOK
  <1>4. IsTable(publications, Numbers, Lists)
    BY RestrictedTable DEF TablesOK
  <1>5. IsTable(assignments, Numbers, [row : Rows, list : Lists])
    BY RestrictedTable DEF TablesOK
  <1>6. \A t \in DOMAIN tasks : t \in DOMAIN T.tasks /\ tasks[t].by = T.tasks[t].by
    BY DEF Restrict
  <1>7. ListRemoved(T, l) = V
    BY DEF ListRemoved, TablesOK, Tables
  <1> HIDE DEF checklists, columns, tasks, cells, publications, assignments
  <1>8. /\ V.checklists = checklists /\ V.columns = columns /\ V.tasks = tasks
        /\ V.cells = cells /\ V.publications = publications /\ V.assignments = assignments
        /\ V.changes = T.changes
        /\ V = [x \in Tables |-> V[x]]
    BY DEF TablesOK, Tables
  <1> HIDE DEF V
  <1>9. QED
    BY <1>1, <1>2, <1>3, <1>4, <1>5, <1>6, <1>7, <1>8 DEF TablesOK, KeepsTheLog

\* A patch writes only normalized values into the record of its list.
LEMMA PatchedType ==
  ASSUME NEW T, TablesOK(T), NEW l \in DOMAIN T.checklists, NEW patch \in Patches
  PROVE  TablesOK(Patched(T, l, patch)) /\ KeepsTheLog(T, Patched(T, l, patch))
  <1> DEFINE good == Restrict(patch, Accepted(patch))
             list == Written(T.checklists[l], good)
             V    == [T EXCEPT !.checklists = [T.checklists EXCEPT ![l] = list]]
  <1>1. T.checklists[l] \in ListRecord
    BY DEF TablesOK, IsTable, Range
  <1>2. Range(Fields) = {"name", "mission", "mode", "sync", "status"}
    BY DEF Range, Fields
  <1>3. DOMAIN patch \subseteq Range(Fields)
    BY DEF Patches
  <1>4. \A f \in DOMAIN good : /\ f \in Range(Fields)
                               /\ good[f] \in FieldValues[f] \ {"unknown", Invalid}
    <2>1. ASSUME NEW f \in DOMAIN good
          PROVE  f \in DOMAIN patch /\ good[f] = patch[f] /\ ~Refused(patch, f)
      BY DEF Restrict, Accepted, Fields
    <2>2. QED  BY <2>1, <1>3 DEF Refused, Patches
  <1>5. list \in ListRecord
    <2>1. DOMAIN T.checklists[l] = {"name", "mission", "mode", "sync", "status",
                                    "pending", "late", "complete"}
      BY <1>1 DEF ListRecord
    <2>2. DOMAIN list = DOMAIN T.checklists[l]
      BY <1>2, <1>4, <2>1 DEF Written
    <2>3. /\ list.name \in {"given", "renamed"} /\ list.mission \in {None, "known"}
          /\ list.mode \in Modes /\ list.sync \in Syncs /\ list.status \in Statuses
      BY <1>1, <1>4, <2>1, <2>2 DEF Written, ListRecord, FieldValues, Missions
    <2>4. list.pending \in Nat /\ list.late \in Nat /\ list.complete \in Nat
      BY <1>1, <1>2, <1>4, <2>1, <2>2 DEF Written, ListRecord
    <2>5. list = [name |-> list.name, mission |-> list.mission, mode |-> list.mode,
                  sync |-> list.sync, status |-> list.status, pending |-> list.pending,
                  late |-> list.late, complete |-> list.complete]
      BY <2>1, <2>2 DEF Written
    <2> HIDE DEF list
    <2>6. QED  BY <2>3, <2>4, <2>5 DEF ListRecord
  <1>6. Patched(T, l, patch) = V
    BY DEF Patched, TablesOK, Tables
  <1> HIDE DEF list
  <1>7. IsTable([T.checklists EXCEPT ![l] = list], Lists, ListRecord)
    BY <1>5 DEF TablesOK, IsTable, Range
  <1>8. /\ V.checklists = [T.checklists EXCEPT ![l] = list]
        /\ \A x \in Tables \ {"checklists"} : V[x] = T[x]
        /\ V = [x \in Tables |-> V[x]]
    BY DEF TablesOK, Tables
  <1>9. QED  BY <1>6, <1>7, <1>8 DEF TablesOK, Tables, KeepsTheLog

-----------------------------------------------------------------------------
(* The log of mission changes.                                             *)

\* The change of command n says that it added row t.
Says(changes, n, t) ==
  n \in DOMAIN changes /\ changes[n].kind = "row added" /\ changes[n].row = t

\* What command n may do to the log: add its own change to it, and add rows
\* of which that change speaks.
Follows(old, new, n) ==
  /\ DOMAIN old.changes \subseteq DOMAIN new.changes
  /\ DOMAIN new.changes \subseteq DOMAIN old.changes \cup {n}
  /\ \A m \in DOMAIN old.changes : new.changes[m] = old.changes[m]
  /\ \A t \in DOMAIN new.tasks :
       \/ new.tasks[t].by = 0
       \/ t \in DOMAIN old.tasks /\ new.tasks[t].by = old.tasks[t].by
       \/ new.tasks[t].by = n /\ Says(new.changes, n, t)

LEMMA KeepingFollows ==
  ASSUME NEW old, NEW new, NEW n, KeepsTheLog(old, new)
  PROVE  Follows(old, new, n)
  BY DEF KeepsTheLog, Follows

LEMMA AnnounceType ==
  ASSUME NEW T, TablesOK(T), NEW n \in Numbers, NEW kind \in ChangeKinds,
         NEW l \in Lists, NEW t \in Rows \cup {None}
  PROVE  LET U == Announce(T, n, kind, l, t) IN
         /\ TablesOK(U) /\ U.tasks = T.tasks
         /\ U.changes = Put(T.changes, n, [kind |-> kind, list |-> l, row |-> t])
  <1> DEFINE change  == [kind |-> kind, list |-> l, row |-> t]
             changes == Put(T.changes, n, change)
             U       == [T EXCEPT !.changes = changes]
  <1>1. IsTable(changes, Numbers, [kind : ChangeKinds, list : Lists, row : Rows \cup {None}])
    BY PutTable DEF TablesOK
  <1>2. Announce(T, n, kind, l, t) = U
    BY DEF Announce
  <1> HIDE DEF changes
  <1>3. /\ U.changes = changes
        /\ \A x \in Tables \ {"changes"} : U[x] = T[x]
        /\ U = [x \in Tables |-> U[x]]
    BY DEF TablesOK, Tables
  <1> HIDE DEF U
  <1>4. QED  BY <1>1, <1>2, <1>3 DEF TablesOK, Tables, changes

LEMMA AnnounceFollows ==
  ASSUME NEW old, NEW T, TablesOK(T), NEW n \in Numbers, NEW kind \in ChangeKinds,
         NEW l \in Lists, NEW t \in Rows \cup {None}, n \notin DOMAIN old.changes,
         T.changes = old.changes,
         \A r \in DOMAIN T.tasks :
           \/ T.tasks[r].by = 0
           \/ r \in DOMAIN old.tasks /\ T.tasks[r].by = old.tasks[r].by
           \/ T.tasks[r].by = n /\ r = t /\ kind = "row added"
  PROVE  /\ TablesOK(Announce(T, n, kind, l, t))
         /\ Follows(old, Announce(T, n, kind, l, t), n)
  <1> DEFINE U == Announce(T, n, kind, l, t)
  <1>1. /\ TablesOK(U) /\ U.tasks = T.tasks
        /\ U.changes = Put(T.changes, n, [kind |-> kind, list |-> l, row |-> t])
    BY AnnounceType
  <1> HIDE DEF U
  <1>2. /\ DOMAIN U.changes = DOMAIN old.changes \cup {n}
        /\ \A m \in DOMAIN old.changes : U.changes[m] = old.changes[m]
        /\ U.changes[n].kind = kind /\ U.changes[n].row = t
    <2> DEFINE change == [kind |-> kind, list |-> l, row |-> t]
               C == Put(T.changes, n, change)
    <2> HIDE DEF change
    <2>1. DOMAIN C = DOMAIN T.changes \cup {n} /\ C[n] = change
      BY DEF Put, Written
    <2>2. \A m \in DOMAIN T.changes \ {n} : C[m] = T.changes[m]
      BY DEF Put, Written
    <2>3. U.changes = C
      BY <1>1 DEF change
    <2> HIDE DEF C
    <2>4. C[n].kind = kind /\ C[n].row = t
      <3>1. C[n] = change
        BY <2>1
      <3> HIDE DEF C
      <3>2. change.kind = kind /\ change.row = t
        BY DEF change
      <3>3. QED  BY <3>1, <3>2
    <2>5. C[n].kind = U.changes[n].kind /\ C[n].row = U.changes[n].row
      BY <2>3
    <2>6. DOMAIN U.changes = DOMAIN old.changes \cup {n}
      <3>1. DOMAIN C = DOMAIN old.changes \cup {n}
        BY <2>1
      <3>2. QED  BY <2>3, <3>1, Zenon
    <2>7. \A m \in DOMAIN old.changes : U.changes[m] = old.changes[m]
      BY <2>2, <2>3
    <2>8. QED  BY <2>4, <2>5, <2>6, <2>7
  <1>3. Follows(old, U, n)
    BY <1>1, <1>2 DEF Follows, Says
  <1>4. QED  BY <1>1, <1>3 DEF U

\* The same for tables that leave the log alone.
LEMMA KeepingAnnounced ==
  ASSUME NEW old, NEW T, TablesOK(T), KeepsTheLog(old, T), NEW n \in Numbers,
         NEW kind \in ChangeKinds, NEW l \in Lists, NEW t \in Rows \cup {None},
         n \notin DOMAIN old.changes
  PROVE  /\ TablesOK(Announce(T, n, kind, l, t))
         /\ Follows(old, Announce(T, n, kind, l, t), n)
  BY AnnounceFollows DEF KeepsTheLog

-----------------------------------------------------------------------------
(* Every command answers with tables that follow those it was applied to.  *)

Follower(w, tables) == TablesOK(tables) /\ Follows(core[w], tables, number[w])

LEMMA SameFollower ==
  ASSUME NEW w \in Workers, TypeOK
  PROVE  Follower(w, core[w])
  BY DEF TypeOK, Follower, Follows

LEMMA CreateNewType ==
  ASSUME NEW w \in Workers, TypeOK, command[w] \in Requests, number[w] \in Numbers,
         number[w] \notin DOMAIN core[w].changes, CreateNew(w)
  PROVE  \E accepted \in BOOLEAN : \E tables : Answer(w, accepted, tables) /\ Follower(w, tables)
  <1> DEFINE c == command[w]
             n == number[w]
             T == core[w]
             list == [name |-> "given", mission |-> c.mission, mode |-> c.mode,
                      sync |-> IF c.mode = "ONLINE" THEN "SYNCED" ELSE "LOCAL_ONLY",
                      status |-> "PENDING", pending |-> 0, late |-> 0, complete |-> 0]
             checklists == Put(T.checklists, c.list, list)
             columns    == Put(T.columns, n, c.list)
             listed     == [T EXCEPT !.checklists = checklists, !.columns = columns]
             added      == Addable(listed, c.list, c.rows)
             result     == RowsAdded(listed, c.list, added, TRUE, n, 0)
  <1>1. TablesOK(T)
    BY DEF TypeOK
  <1>2. /\ c.list \in Lists /\ c.mode \in Modes /\ c.mission \in Missions \ {"unknown"}
        /\ c.rows \in Seq(Rows)
    BY RequestForms DEF CreateNew, Loaded
  <1>3. list \in ListRecord
    BY <1>2 DEF ListRecord, Missions, Syncs, Statuses
  <1> HIDE DEF list
  <1>4. IsTable(checklists, Lists, ListRecord) /\ IsTable(columns, Numbers, Lists)
    BY <1>1, <1>2, <1>3, PutTable DEF TablesOK
  <1>5. c.list \in DOMAIN checklists
    BY DEF Put, Written
  <1>6. /\ Answer(w, FALSE, result) \/ Answer(w, TRUE, result)
           \/ Answer(w, TRUE, Announce(result, n, "created", c.list, None))
    BY DEF CreateNew, Accept, Reject, list
  <1> HIDE DEF checklists, columns
  <1>7. /\ listed.checklists = checklists /\ listed.columns = columns
        /\ \A x \in Tables \ {"checklists", "columns"} : listed[x] = T[x]
        /\ listed = [x \in Tables |-> listed[x]]
    BY <1>1 DEF TablesOK, Tables
  <1>8. TablesOK(listed) /\ listed.changes = T.changes /\ listed.tasks = T.tasks
    BY <1>1, <1>4, <1>7 DEF TablesOK, Tables
  <1> HIDE DEF listed
  <1>9. added \subseteq Rows
    BY <1>2 DEF Addable
  <1> HIDE DEF added
  <1>10. TablesOK(result) /\ KeepsTheLog(T, result)
    <2>1. 0 \in 0..MaxCommands
      BY BoundsAssumption
    <2>2. c.list \in DOMAIN listed.checklists
      BY <1>5, <1>7
    <2>3. AddsRows(listed, result, added, 0)
      <3>1. added \in SUBSET Rows /\ TRUE \in BOOLEAN
        BY <1>9
      <3>2. QED  BY <1>8, <2>1, <2>2, <3>1, RowsAddedType, Zenon
    <2> HIDE DEF result
    <2>4. QED  BY <2>3, <1>8 DEF AddsRows, KeepsTheLog
  <1> HIDE DEF result
  <1>11. Follower(w, result)
    BY <1>10, KeepingFollows DEF Follower
  <1>12. Follower(w, Announce(result, n, "created", c.list, None))
    BY <1>2, <1>10, KeepingAnnounced DEF Follower, ChangeKinds
  <1>13. QED  BY <1>6, <1>11, <1>12

LEMMA RowAddType ==
  ASSUME NEW w \in Workers, TypeOK, command[w] \in Requests, number[w] \in Numbers,
         number[w] \notin DOMAIN core[w].changes, RowAdd(w)
  PROVE  \E accepted \in BOOLEAN : \E tables : Answer(w, accepted, tables) /\ Follower(w, tables)
  <1> DEFINE c == command[w]
             n == number[w]
             T == core[w]
             result == RowsAdded(T, c.list, {c.row}, c.due, n, n)
  <1>1. TablesOK(T) /\ n \in 0..MaxCommands
    BY DEF TypeOK
  <1>2. c.list \in Lists /\ c.row \in Rows /\ c.due \in BOOLEAN
    BY RequestForms DEF RowAdd, Loaded
  <1>3. CASE c.list \notin DOMAIN T.checklists \/ InUse(T, c.list, c.row)
    BY <1>3, SameFollower DEF RowAdd, Reject
  <1>4. CASE ~(c.list \notin DOMAIN T.checklists \/ InUse(T, c.list, c.row))
    <2>1. AddsRows(T, result, {c.row}, n)
      <3>1. {c.row} \in SUBSET Rows /\ c.list \in DOMAIN T.checklists
        BY <1>2, <1>4
      <3>2. QED  BY <1>1, <1>2, <3>1, RowsAddedType, Zenon
    <2>2. Answer(w, TRUE, IF c.row \in DOMAIN T.tasks THEN result
                          ELSE Announce(result, n, "row added", c.list, c.row))
      BY <1>4 DEF RowAdd, Accept
    <2> HIDE DEF result
    <2>3. CASE c.row \in DOMAIN T.tasks
      <3>1. Follower(w, result)
        BY <2>1, <2>3, KeepingFollows DEF AddsRows, KeepsTheLog, Follower
      <3>2. QED  BY <2>2, <2>3, <3>1
    <2>4. CASE c.row \notin DOMAIN T.tasks
      <3>1. Follower(w, Announce(result, n, "row added", c.list, c.row))
        BY <1>2, <2>1, AnnounceFollows DEF AddsRows, Follower, ChangeKinds
      <3>2. QED  BY <2>2, <2>4, <3>1
    <2>5. QED  BY <2>3, <2>4
  <1>5. QED  BY <1>3, <1>4

\* What the commands do whose tables leave the log alone, but for their own change.
LEMMA QuietAnswer ==
  ASSUME NEW w \in Workers, number[w] \in Numbers, number[w] \notin DOMAIN core[w].changes,
         NEW T, TablesOK(T), KeepsTheLog(core[w], T)
  PROVE  /\ Follower(w, T)
         /\ \A kind \in ChangeKinds, l \in Lists, t \in Rows \cup {None} :
              Follower(w, Announce(T, number[w], kind, l, t))
  <1>1. Follower(w, T)
    BY KeepingFollows DEF Follower
  <1>2. ASSUME NEW kind \in ChangeKinds, NEW l \in Lists, NEW t \in Rows \cup {None}
        PROVE  Follower(w, Announce(T, number[w], kind, l, t))
    BY KeepingAnnounced DEF Follower
  <1>3. QED  BY <1>1, <1>2

LEMMA ApplyType ==
  ASSUME NEW w \in Workers, TypeOK, command[w] \in Requests, number[w] \in Numbers,
         number[w] \notin DOMAIN core[w].changes, Apply(w)
  PROVE  \E accepted \in BOOLEAN : \E tables : Answer(w, accepted, tables) /\ Follower(w, tables)
  <1> DEFINE c == command[w]
             n == number[w]
             T == core[w]
             Goal == \E accepted \in BOOLEAN : \E tables :
                       Answer(w, accepted, tables) /\ Follower(w, tables)
  <1>1. TablesOK(T)
    BY DEF TypeOK
  <1>2. Follower(w, T)
    BY SameFollower
  <1>3. ASSUME NEW U, TablesOK(U), KeepsTheLog(T, U)
        PROVE  /\ Follower(w, U)
               /\ \A kind \in ChangeKinds, l \in Lists, t \in Rows \cup {None} :
                    Follower(w, Announce(U, n, kind, l, t))
    BY <1>3, QuietAnswer
  <1>4. KeepsTheLog(T, T)
    BY DEF KeepsTheLog
  <1>5. \A l \in DOMAIN T.checklists : l \in Lists
    BY <1>1 DEF TablesOK, IsTable
  <1>6. ASSUME Reject(w, T)  PROVE  Goal
    BY <1>2, <1>6 DEF Reject
  <1>7. ASSUME NEW U, TablesOK(U), KeepsTheLog(T, U), Accept(w, U)  PROVE  Goal
    BY <1>3, <1>7 DEF Accept
  <1>8. ASSUME NEW U, TablesOK(U), KeepsTheLog(T, U), NEW kind \in ChangeKinds,
               NEW l \in Lists, NEW t \in Rows \cup {None}, Accept(w, Announce(U, n, kind, l, t))
        PROVE  Goal
    BY <1>3, <1>8 DEF Accept
  <1>9. ASSUME HasTask(T, c.list, c.row)
        PROVE  /\ c.list \in DOMAIN T.checklists /\ c.list \in Lists
               /\ c.row \in DOMAIN T.tasks /\ c.row \in Rows
    BY <1>1, <1>9 DEF HasTask, TasksOf, TablesOK, IsTable
  <1>10. CASE CreateNew(w)
    BY <1>10, CreateNewType
  <1>11. CASE RowAdd(w)
    BY <1>11, RowAddType
  <1>12. CASE CreateExisting(w)
    <2>1. CASE c.mode = "ONLINE"
      <3>1. Accept(w, Announce(T, n, "created", c.list, None)) /\ c.list \in Lists
        BY <1>5, <1>12, <2>1 DEF CreateExisting
      <3>2. QED  BY <1>1, <1>4, <1>8, <3>1 DEF ChangeKinds
    <2>2. CASE c.mode # "ONLINE"
      BY <1>1, <1>4, <1>7, <1>12, <2>2 DEF CreateExisting
    <2>3. QED  BY <2>1, <2>2
  <1>13. CASE CreateRejected(w) \/ RowMissing(w) \/ ListMissing(w) \/ CellRejected(w)
    BY <1>6, <1>13 DEF CreateRejected, RowMissing, ListMissing, CellRejected
  <1>14. CASE RowDelete(w)
    <2> DEFINE U == RowRemoved(T, c.list, c.row)
    <2>1. Accept(w, Announce(U, n, "row deleted", c.list, c.row))
          /\ HasTask(T, c.list, c.row)
      BY <1>14 DEF RowDelete
    <2>2. TablesOK(U) /\ KeepsTheLog(T, U)
      BY <1>1, <1>9, <2>1, RowRemovedType
    <2> HIDE DEF U
    <2>3. QED  BY <1>8, <1>9, <2>1, <2>2 DEF ChangeKinds
  <1>15. CASE RowStyleSet(w)
    <2> DEFINE U == Recomputed(T, c.list)
    <2>1. Accept(w, Announce(U, n, "style set", c.list, c.row))
          /\ HasTask(T, c.list, c.row)
      BY <1>15 DEF RowStyleSet
    <2>2. TablesOK(U) /\ KeepsTheLog(T, U)
      BY <1>1, <1>9, <2>1, RecomputedType
    <2> HIDE DEF U
    <2>3. QED  BY <1>8, <1>9, <2>1, <2>2 DEF ChangeKinds
  <1>16. CASE CellSet(w)
    <2>1. HasTask(T, c.list, c.row)
      BY <1>16 DEF CellSet
    <2>2. PICK k \in Numbers \X Rows \X Numbers :
            Accept(w, Announce(Recomputed([T EXCEPT !.cells = Put(@, k, "filled")], c.list),
                               n, "cell set", c.list, c.row))
      <3>1. PICK column \in ColumnsOf(T, c.list) :
              LET old == {k \in DOMAIN T.cells : k[2] = c.row /\ k[3] = column} IN
              \E k \in IF old = {} THEN {<<n, c.row, column>>} ELSE old :
                Accept(w, Announce(Recomputed([T EXCEPT !.cells = Put(@, k, "filled")], c.list),
                                   n, "cell set", c.list, c.row))
        BY <1>16 DEF CellSet
      <3>2. column \in Numbers /\ c.row \in Rows
        BY <1>1, <1>9, <2>1 DEF ColumnsOf, TablesOK, IsTable
      <3>3. DOMAIN T.cells \subseteq Numbers \X Rows \X Numbers
        BY <1>1 DEF TablesOK, IsTable
      <3>4. <<n, c.row, column>> \in Numbers \X Rows \X Numbers
        BY <3>2
      <3>5. QED  BY <3>1, <3>3, <3>4
    <2> DEFINE cells == Put(T.cells, k, "filled")
               V == [T EXCEPT !.cells = cells]
               U == Recomputed(V, c.list)
    <2>3. IsTable(cells, Numbers \X Rows \X Numbers, {None, "filled"})
      BY <1>1, PutTable DEF TablesOK
    <2> HIDE DEF cells
    <2>4. /\ V.cells = cells /\ \A x \in Tables \ {"cells"} : V[x] = T[x]
          /\ V = [x \in Tables |-> V[x]]
      BY <1>1 DEF TablesOK, Tables
    <2>5. TablesOK(V) /\ KeepsTheLog(T, V) /\ V.checklists = T.checklists
      BY <1>1, <2>3, <2>4 DEF TablesOK, Tables, KeepsTheLog
    <2>6. Accept(w, Announce(U, n, "cell set", c.list, c.row))
      BY <2>2 DEF cells
    <2> HIDE DEF V
    <2>7. TablesOK(U) /\ KeepsTheLog(V, U)
      BY <1>9, <2>1, <2>5, RecomputedType
    <2> HIDE DEF U
    <2>8. KeepsTheLog(T, U)
      BY <2>5, <2>7 DEF KeepsTheLog
    <2>9. QED  BY <1>8, <1>9, <2>1, <2>6, <2>7, <2>8 DEF ChangeKinds
  <1>17. CASE StatusSet(w)
    <2> DEFINE completed == CASE c.user # "COMPLETE" -> "no"
                              [] c.user = "COMPLETE" /\ T.tasks[c.row].completed # "no"
                                   -> T.tasks[c.row].completed
                              [] OTHER -> IF passed THEN "late" ELSE "early"
               task  == [T.tasks[c.row] EXCEPT !.user = c.user, !.completed = completed]
               tasks == [T.tasks EXCEPT ![c.row] = task]
               V == [T EXCEPT !.tasks = tasks]
               U == Recomputed(V, c.list)
    <2>1. HasTask(T, c.list, c.row) /\ c.op = "status.set"
      BY <1>17 DEF StatusSet, Loaded
    <2>2. c.user \in {"PENDING", "COMPLETE"}
      BY <2>1, RequestForms
    <2>3. \A t \in DOMAIN T.tasks : T.tasks[t] \in TaskRecord
      BY <1>1 DEF TablesOK, IsTable, Range
    <2>4. completed \in {"no", "early", "late"}
      BY <1>9, <2>1, <2>3 DEF TaskRecord
    <2>5. [T EXCEPT !.tasks[c.row] = [@ EXCEPT !.user = c.user, !.completed = completed]] = V
      BY <1>1 DEF TablesOK, Tables
    <2>6. Accept(w, Announce(U, n, "status set", c.list, c.row))
      BY <1>17, <2>5 DEF StatusSet
    <2> HIDE DEF completed
    <2>7. task \in TaskRecord /\ task.by = T.tasks[c.row].by
      BY <1>9, <2>1, <2>2, <2>3, <2>4 DEF TaskRecord
    <2> HIDE DEF task
    <2>8. \A t \in DOMAIN tasks : /\ t \in DOMAIN T.tasks /\ tasks[t] \in TaskRecord
                                  /\ tasks[t].by = T.tasks[t].by
      BY <2>3, <2>7
    <2>9. IsTable(tasks, Rows, TaskRecord)
      BY <1>1, <1>9, <2>1, <2>7, ChangedRow DEF TablesOK
    <2> HIDE DEF tasks
    <2>10. /\ V.tasks = tasks /\ \A x \in Tables \ {"tasks"} : V[x] = T[x]
           /\ V = [x \in Tables |-> V[x]]
      BY <1>1 DEF TablesOK, Tables
    <2>11. TablesOK(V) /\ KeepsTheLog(T, V) /\ V.checklists = T.checklists
      BY <1>1, <2>8, <2>9, <2>10 DEF TablesOK, Tables, KeepsTheLog
    <2> HIDE DEF V
    <2>12. TablesOK(U) /\ KeepsTheLog(V, U)
      BY <1>9, <2>1, <2>11, RecomputedType
    <2> HIDE DEF U
    <2>13. KeepsTheLog(T, U)
      BY <2>11, <2>12 DEF KeepsTheLog
    <2>14. QED  BY <1>8, <1>9, <2>1, <2>6, <2>12, <2>13 DEF ChangeKinds
  <1>18. CASE Update(w)
    <2> DEFINE U == Patched(T, c.list, c.patch)
    <2>1. c.list \in DOMAIN T.checklists /\ c.patch \in Patches /\ c.list \in Lists
      BY <1>18, RequestForms DEF Update, Loaded
    <2>2. TablesOK(U) /\ KeepsTheLog(T, U)
      BY <1>1, <2>1, PatchedType
    <2>3. Reject(w, U) \/ Accept(w, U) \/ Accept(w, Announce(U, n, "created", c.list, None))
      BY <1>18 DEF Update
    <2> HIDE DEF U
    <2>4. CASE Reject(w, U)
      BY <1>3, <2>2, <2>4 DEF Reject
    <2>5. QED  BY <1>7, <1>8, <2>1, <2>2, <2>3, <2>4 DEF ChangeKinds
  <1>19. CASE Delete(w)
    BY <1>1, <1>7, <1>19, ListRemovedType DEF Delete
  <1>20. CASE Upload(w)
    <2> DEFINE list  == [T.checklists[c.list] EXCEPT !.sync = "SYNCED"]
               lists == [T.checklists EXCEPT ![c.list] = list]
               U == [T EXCEPT !.checklists = lists]
    <2>1. c.list \in DOMAIN T.checklists /\ c.list \in Lists
      BY <1>5, <1>20 DEF Upload
    <2>2. Accept(w, Announce(U, n, "uploaded", c.list, None))
      <3>1. [T EXCEPT !.checklists[c.list].sync = "SYNCED"] = U
        BY <1>1 DEF TablesOK, Tables
      <3>2. QED  BY <1>20, <3>1 DEF Upload
    <2>3. \A l \in DOMAIN T.checklists : T.checklists[l] \in ListRecord
      BY <1>1 DEF TablesOK, IsTable, Range
    <2>4. list \in ListRecord
      BY <2>1, <2>3 DEF ListRecord, Syncs
    <2>5. IsTable(lists, Lists, ListRecord)
      BY <1>1, <2>1, <2>4, ChangedRow DEF TablesOK
    <2> HIDE DEF lists
    <2>6. /\ U.checklists = lists /\ \A x \in Tables \ {"checklists"} : U[x] = T[x]
          /\ U = [x \in Tables |-> U[x]]
      BY <1>1 DEF TablesOK, Tables
    <2>7. TablesOK(U) /\ KeepsTheLog(T, U)
      BY <1>1, <2>5, <2>6 DEF TablesOK, Tables, KeepsTheLog
    <2> HIDE DEF U
    <2>8. QED  BY <1>8, <2>1, <2>2, <2>7 DEF ChangeKinds
  <1>21. CASE Publish(w)
    <2> DEFINE published == Put(T.publications, n, c.list)
               U == [T EXCEPT !.publications = published]
    <2>1. c.list \in Lists /\ (Reject(w, T) \/ Accept(w, U))
      BY <1>5, <1>21 DEF Publish
    <2>2. IsTable(published, Numbers, Lists)
      BY <1>1, <2>1, PutTable DEF TablesOK
    <2> HIDE DEF published
    <2>3. /\ U.publications = published /\ \A x \in Tables \ {"publications"} : U[x] = T[x]
          /\ U = [x \in Tables |-> U[x]]
      BY <1>1 DEF TablesOK, Tables
    <2>4. TablesOK(U) /\ KeepsTheLog(T, U)
      BY <1>1, <2>2, <2>3 DEF TablesOK, Tables, KeepsTheLog
    <2> HIDE DEF U
    <2>5. QED  BY <1>6, <1>7, <2>1, <2>4
  <1>22. CASE Join(w)
    BY <1>1, <1>4, <1>7, <1>22 DEF Join
  <1>23. CASE Assign(w)
    <2> DEFINE assignments == Put(T.assignments, n, [row |-> c.row, list |-> T.tasks[c.row].list])
               U == [T EXCEPT !.assignments = assignments]
    <2>1. CASE Reject(w, T)
      BY <1>6, <2>1
    <2>2. CASE c.row \in DOMAIN T.tasks
               /\ Accept(w, Announce(U, n, "assigned", T.tasks[c.row].list, c.row))
      <3>1. T.tasks[c.row] \in TaskRecord /\ c.row \in Rows
        BY <1>1, <2>2 DEF TablesOK, IsTable, Range
      <3>2. T.tasks[c.row].list \in Lists
        BY <3>1 DEF TaskRecord
      <3>3. IsTable(assignments, Numbers, [row : Rows, list : Lists])
        BY <1>1, <3>1, <3>2, PutTable DEF TablesOK
      <3> HIDE DEF assignments
      <3>4. /\ U.assignments = assignments /\ \A x \in Tables \ {"assignments"} : U[x] = T[x]
            /\ U = [x \in Tables |-> U[x]]
        BY <1>1 DEF TablesOK, Tables
      <3>5. TablesOK(U) /\ KeepsTheLog(T, U)
        BY <1>1, <3>3, <3>4 DEF TablesOK, Tables, KeepsTheLog
      <3> HIDE DEF U
      <3>6. QED  BY <1>8, <2>2, <3>1, <3>2, <3>5 DEF ChangeKinds
    <2>3. QED  BY <1>23, <2>1, <2>2 DEF Assign
  <1>24. QED
    BY <1>10, <1>11, <1>12, <1>13, <1>14, <1>15, <1>16, <1>17, <1>18, <1>19, <1>20, <1>21,
       <1>22, <1>23 DEF Apply

-----------------------------------------------------------------------------
(* The inductive invariant.                                                *)

\* A worker at work has a command with a number of its own, which no change
\* in the store bears yet.
NumbersAreNew ==
  /\ DOMAIN store.changes \subseteq 1..commands
  /\ \A w \in Workers :
       /\ phase[w] = "idle" => read[w] = 0
       /\ phase[w] = "reading" => read[w] < 7
       /\ phase[w] # "idle" =>
            /\ command[w] \in Requests /\ number[w] \in 1..commands
            /\ number[w] \notin DOMAIN store.changes
            /\ \A v \in Workers \ {w} : phase[v] # "idle" => number[v] # number[w]

\* What a worker has read of the log is part of the log, and what it has
\* computed follows what it has read.
SnapshotsOfTheLog ==
  \A w \in Workers :
    /\ \A n \in DOMAIN before[w].changes :
         n \in DOMAIN store.changes /\ before[w].changes[n] = store.changes[n]
    /\ phase[w] = "loaded" => core[w] = before[w]
    /\ phase[w] = "applied" => Follows(before[w], core[w], number[w])

\* Every row that was added is announced.
Announced(tasks, changes) ==
  \A t \in DOMAIN tasks : tasks[t].by = 0 \/ Says(changes, tasks[t].by, t)

LEMMA AnnouncedRows == AddedRowsAreAnnounced <=> Announced(store.tasks, store.changes)
  BY DEF AddedRowsAreAnnounced, Announced, Says

\* The rows a worker has read are announced in the store.
SnapshotsAreAnnounced ==
  \A w \in Workers : Announced(before[w].tasks, store.changes)

IInv == /\ TypeOK /\ NumbersAreNew /\ SnapshotsOfTheLog /\ SnapshotsAreAnnounced
        /\ AddedRowsAreAnnounced

\* The store keeps its changes, and may get those of one more command.
LogGrows(n) ==
  /\ \A m \in DOMAIN store.changes :
       m \in DOMAIN store'.changes /\ store'.changes[m] = store.changes[m]
  /\ DOMAIN store'.changes \subseteq DOMAIN store.changes \cup {n}

LEMMA EmptyType == TablesOK(Empty)
  <1>1. \A t \in Tables : Empty[t] = << >>
    BY DEF Empty
  <1>2. DOMAIN << >> = {}
    OBVIOUS
  <1>3. ASSUME NEW Keys, NEW Values
        PROVE  IsTable(<< >>, Keys, Values)
    BY <1>2 DEF IsTable, Range
  <1>4. Empty = [t \in Tables |-> Empty[t]]
    BY DEF Empty
  <1> HIDE DEF Empty
  <1>5. QED  BY <1>1, <1>3, <1>4 DEF TablesOK, Tables

LEMMA EmptyLog == DOMAIN Empty.changes = {} /\ DOMAIN Empty.tasks = {}
  BY DEF Empty, Tables

LEMMA InitInvariant == Init => IInv
  <1> SUFFICES ASSUME Init  PROVE  IInv
    OBVIOUS
  <1>1. TypeOK
    <2>1. 0 \in 0..MaxCommands /\ 0 \in 0..7
      BY BoundsAssumption
    <2>2. /\ number \in [Workers -> 0..MaxCommands] /\ read \in [Workers -> 0..7]
          /\ ok \in [Workers -> BOOLEAN] /\ behind \in [Workers -> BOOLEAN]
          /\ commands \in 0..MaxCommands /\ passed \in BOOLEAN /\ overlapped \in BOOLEAN
      BY <2>1 DEF Init
    <2>3. /\ phase \in [Workers -> {"idle", "reading", "loaded", "applied"}]
          /\ command \in [Workers -> Requests \cup {Nobody}]
      BY DEF Init
    <2>4. /\ before = [w \in Workers |-> before[w]] /\ core = [w \in Workers |-> core[w]]
          /\ \A w \in Workers : before[w] = Empty /\ core[w] = Empty
          /\ store = Empty
      BY DEF Init
    <2>5. QED  BY EmptyType, <2>2, <2>3, <2>4 DEF TypeOK
  <1>2. NumbersAreNew
    BY EmptyLog DEF Init, NumbersAreNew
  <1>3. SnapshotsOfTheLog
    BY EmptyLog DEF Init, SnapshotsOfTheLog
  <1>4. SnapshotsAreAnnounced /\ AddedRowsAreAnnounced
    BY EmptyLog DEF Init, SnapshotsAreAnnounced, Announced, AddedRowsAreAnnounced
  <1>5. QED  BY <1>1, <1>2, <1>3, <1>4 DEF IInv

\* One more table read.
LEMMA ReadType ==
  ASSUME NEW T, TablesOK(T), NEW table \in Tables, TablesOK(store)
  PROVE  TablesOK([T EXCEPT ![table] = store[table]])
  <1> DEFINE U == [T EXCEPT ![table] = store[table]]
  <1>1. /\ U = [x \in Tables |-> U[x]]
        /\ \A x \in Tables : U[x] = T[x] \/ U[x] = store[x]
    BY DEF TablesOK, Tables
  <1> HIDE DEF U
  <1>2. TablesOK(U)
    BY <1>1 DEF TablesOK, Tables
  <1>3. QED  BY <1>2 DEF U

LEMMA StatementsType ==
  ASSUME NEW c, NEW i \in 1..7
  PROVE  Len(Statements(c)) = 7 /\ Statements(c)[i] \in Tables
  BY DEF Statements, Tables

LEMMA BeginInvariant ==
  ASSUME IInv, NEW w \in Workers, NEW c \in Requests, Begin(w, c)
  PROVE  IInv'
  <1>1. TypeOK'
    <2>1. commands' \in 0..MaxCommands /\ commands + 1 \in 0..MaxCommands
      BY BoundsAssumption DEF IInv, TypeOK, Begin
    <2>2. /\ phase' \in [Workers -> {"idle", "reading", "loaded", "applied"}]
          /\ command' \in [Workers -> Requests \cup {Nobody}]
          /\ number' \in [Workers -> 0..MaxCommands]
      BY <2>1 DEF IInv, TypeOK, Begin
    <2>3. UNCHANGED <<store, passed, read, before, core, ok, behind, overlapped>>
      BY DEF Begin
    <2>4. QED  BY <2>1, <2>2, <2>3 DEF IInv, TypeOK
  <1>2. NumbersAreNew'
    <2>1. commands' = commands + 1 /\ store' = store /\ read' = read /\ commands \in Nat
      BY DEF Begin, IInv, TypeOK
    <2>2. \A v \in Workers : /\ phase'[v] = IF v = w THEN "reading" ELSE phase[v]
                             /\ command'[v] = IF v = w THEN c ELSE command[v]
                             /\ number'[v] = IF v = w THEN commands + 1 ELSE number[v]
      BY DEF Begin, IInv, TypeOK
    <2>3. phase[w] = "idle"
      BY DEF Begin
    <2>4. QED  BY <2>1, <2>2, <2>3 DEF IInv, NumbersAreNew
  <1>3. SnapshotsOfTheLog'
    <2>1. store' = store /\ before' = before /\ core' = core
      BY DEF Begin
    <2>2. \A v \in Workers \ {w} : phase'[v] = phase[v] /\ number'[v] = number[v]
      BY DEF Begin, IInv, TypeOK
    <2>3. phase'[w] = "reading"
      BY DEF Begin, IInv, TypeOK
    <2>4. QED  BY <2>1, <2>2, <2>3 DEF IInv, SnapshotsOfTheLog
  <1>4. SnapshotsAreAnnounced' /\ AddedRowsAreAnnounced'
    BY DEF Begin, IInv, SnapshotsAreAnnounced, AddedRowsAreAnnounced
  <1>5. QED  BY <1>1, <1>2, <1>3, <1>4 DEF IInv

LEMMA ReadInvariant ==
  ASSUME IInv, NEW w \in Workers, Read(w)
  PROVE  IInv'
  <1> DEFINE table == Statements(command[w])[read[w] + 1]
             T == [before[w] EXCEPT ![table] = store[table]]
  <1>1. TypeOK /\ phase[w] = "reading" /\ read[w] \in 0..6
    BY DEF Read, IInv, TypeOK, NumbersAreNew
  <1>2. table \in Tables /\ Len(Statements(command[w])) = 7
    BY <1>1, StatementsType
  <1> HIDE DEF table
  <1>3. TablesOK(T) /\ T[table] = store[table] /\ \A x \in Tables \ {table} : T[x] = before[w][x]
    <2>1. TablesOK(T)
      BY <1>1, <1>2, ReadType DEF TypeOK
    <2>2. QED  BY <1>1, <1>2, <2>1 DEF TypeOK, TablesOK
  <1>4. before' = [before EXCEPT ![w] = T]
    BY DEF Read, table
  <1> HIDE DEF T
  <1>5. /\ before' = [v \in Workers |-> before'[v]] /\ before'[w] = T
        /\ \A v \in Workers \ {w} : before'[v] = before[v]
    BY <1>1, <1>4 DEF TypeOK
  <1>6. /\ read' = [read EXCEPT ![w] = read[w] + 1] /\ read'[w] = read[w] + 1
        /\ read' \in [Workers -> 0..7]
    BY <1>1 DEF Read, TypeOK
  <1>7. \/ /\ read'[w] = 7 /\ phase' = [phase EXCEPT ![w] = "loaded"]
           /\ core' = [core EXCEPT ![w] = T]
        \/ /\ read'[w] < 7 /\ phase' = phase /\ core' = core
    <2>1. IF read'[w] = 7 THEN /\ phase' = [phase EXCEPT ![w] = "loaded"]
                              /\ core' = [core EXCEPT ![w] = before'[w]]
          ELSE phase' = phase /\ core' = core
      BY <1>2 DEF Read
    <2>2. QED  BY <1>1, <1>5, <1>6, <2>1
  <1>8. UNCHANGED <<store, passed, commands, command, number, ok, behind, overlapped>>
    BY DEF Read
  <1>9. /\ core' = [v \in Workers |-> core'[v]]
        /\ core'[w] = core[w] \/ core'[w] = T
        /\ \A v \in Workers \ {w} : core'[v] = core[v] /\ phase'[v] = phase[v] /\ read'[v] = read[v]
        /\ \/ phase'[w] = "reading" /\ read'[w] < 7
           \/ phase'[w] = "loaded" /\ core'[w] = T
        /\ phase' \in [Workers -> {"idle", "reading", "loaded", "applied"}]
    BY <1>1, <1>6, <1>7 DEF TypeOK
  <1>10. TypeOK'
    BY <1>1, <1>3, <1>5, <1>6, <1>8, <1>9 DEF TypeOK
  <1>11. NumbersAreNew'
    BY <1>1, <1>8, <1>9 DEF IInv, NumbersAreNew
  <1>12. SnapshotsOfTheLog'
    <2>1. \A n \in DOMAIN T.changes : n \in DOMAIN store.changes /\ T.changes[n] = store.changes[n]
      <3>1. T.changes = store.changes \/ T.changes = before[w].changes
        BY <1>3 DEF Tables
      <3>2. QED  BY <3>1 DEF IInv, SnapshotsOfTheLog
    <2>2. QED  BY <1>5, <1>8, <1>9, <2>1 DEF IInv, SnapshotsOfTheLog
  <1>13. SnapshotsAreAnnounced'
    <2>1. Announced(T.tasks, store.changes)
      <3>1. T.tasks = store.tasks \/ T.tasks = before[w].tasks
        BY <1>3 DEF Tables
      <3>2. QED  BY <3>1, AnnouncedRows DEF IInv, SnapshotsAreAnnounced
    <2>2. QED  BY <1>5, <1>8, <2>1 DEF IInv, SnapshotsAreAnnounced
  <1>14. AddedRowsAreAnnounced'
    BY <1>8 DEF IInv, AddedRowsAreAnnounced
  <1>15. QED  BY <1>10, <1>11, <1>12, <1>13, <1>14 DEF IInv

LEMMA ApplyInvariant ==
  ASSUME IInv, NEW w \in Workers, Apply(w)
  PROVE  IInv'
  <1>1. TypeOK
    BY DEF IInv
  <1>2. phase[w] = "loaded"
    BY DEF Apply, Loaded, CreateNew, CreateExisting, CreateRejected, RowAdd, RowDelete,
       RowStyleSet, CellSet, CellRejected, StatusSet, RowMissing, Update, Delete, Upload,
       Publish, Join, ListMissing, Assign
  <1>3. /\ command[w] \in Requests /\ number[w] \in Numbers /\ core[w] = before[w]
        /\ number[w] \notin DOMAIN core[w].changes
    <2>1. /\ command[w] \in Requests /\ number[w] \in 1..commands
          /\ number[w] \notin DOMAIN store.changes /\ core[w] = before[w]
      BY <1>2 DEF IInv, NumbersAreNew, SnapshotsOfTheLog
    <2>2. \A n \in DOMAIN before[w].changes : n \in DOMAIN store.changes
      BY DEF IInv, SnapshotsOfTheLog
    <2>3. QED  BY <1>1, <2>1, <2>2, BoundsAssumption DEF TypeOK, Numbers
  <1>3a. PICK accepted \in BOOLEAN : \E tables : Answer(w, accepted, tables) /\ Follower(w, tables)
    BY <1>1, <1>3, ApplyType
  <1>4. PICK T : Answer(w, accepted, T) /\ Follower(w, T)
    BY <1>3a
  <1>5. /\ core' = [core EXCEPT ![w] = T] /\ phase' = [phase EXCEPT ![w] = "applied"]
        /\ ok' = [ok EXCEPT ![w] = accepted]
        /\ UNCHANGED <<store, passed, commands, command, number, read, before, behind, overlapped>>
    BY <1>4 DEF Answer
  <1>6. /\ core'[w] = T /\ core' = [v \in Workers |-> core'[v]] /\ phase'[w] = "applied"
        /\ \A v \in Workers \ {w} : core'[v] = core[v] /\ phase'[v] = phase[v]
        /\ phase' \in [Workers -> {"idle", "reading", "loaded", "applied"}]
    BY <1>1, <1>5 DEF TypeOK
  <1>7. ok' \in [Workers -> BOOLEAN]
    <2>1. ok \in [Workers -> BOOLEAN]
      BY <1>1 DEF TypeOK
    <2>2. QED  BY <1>4, <1>5, <2>1
  <1>8. TablesOK(T) /\ Follows(before[w], T, number[w])
    BY <1>3, <1>4 DEF Follower
  <1>9. TypeOK'
    BY <1>1, <1>5, <1>6, <1>7, <1>8 DEF TypeOK
  <1>10. NumbersAreNew'
    BY <1>2, <1>5, <1>6 DEF IInv, NumbersAreNew
  <1>11. SnapshotsOfTheLog'
    BY <1>5, <1>6, <1>8 DEF IInv, SnapshotsOfTheLog
  <1>12. SnapshotsAreAnnounced' /\ AddedRowsAreAnnounced'
    BY <1>5 DEF IInv, SnapshotsAreAnnounced, AddedRowsAreAnnounced
  <1>13. QED  BY <1>9, <1>10, <1>11, <1>12 DEF IInv

\* A worker that is done forgets everything.
LEMMA IdleType ==
  ASSUME TypeOK, NEW w \in Workers, Idle(w)
  PROVE  /\ phase' \in [Workers -> {"idle", "reading", "loaded", "applied"}]
         /\ command' \in [Workers -> Requests \cup {Nobody}]
         /\ number' \in [Workers -> 0..MaxCommands] /\ read' \in [Workers -> 0..7]
         /\ ok' \in [Workers -> BOOLEAN]
         /\ before' = [v \in Workers |-> before'[v]] /\ core' = [v \in Workers |-> core'[v]]
         /\ \A v \in Workers : TablesOK(before'[v]) /\ TablesOK(core'[v])
         /\ phase'[w] = "idle" /\ read'[w] = 0 /\ before'[w] = Empty
         /\ \A v \in Workers \ {w} :
              /\ phase'[v] = phase[v] /\ command'[v] = command[v] /\ number'[v] = number[v]
              /\ read'[v] = read[v] /\ before'[v] = before[v] /\ core'[v] = core[v]
  <1>1. phase' \in [Workers -> {"idle", "reading", "loaded", "applied"}]
        /\ command' \in [Workers -> Requests \cup {Nobody}]
    BY DEF TypeOK, Idle
  <1>2. number' \in [Workers -> 0..MaxCommands] /\ read' \in [Workers -> 0..7]
    BY BoundsAssumption DEF TypeOK, Idle
  <1>3. ok' \in [Workers -> BOOLEAN]
    BY DEF TypeOK, Idle
  <1>4. /\ before' = [v \in Workers |-> before'[v]] /\ core' = [v \in Workers |-> core'[v]]
        /\ before'[w] = Empty /\ core'[w] = Empty
        /\ \A v \in Workers \ {w} : before'[v] = before[v] /\ core'[v] = core[v]
    BY DEF TypeOK, Idle
  <1>5. \A v \in Workers : TablesOK(before'[v]) /\ TablesOK(core'[v])
    BY <1>4, EmptyType DEF TypeOK
  <1>6. /\ phase'[w] = "idle" /\ read'[w] = 0
        /\ \A v \in Workers \ {w} :
             /\ phase'[v] = phase[v] /\ command'[v] = command[v] /\ number'[v] = number[v]
             /\ read'[v] = read[v]
    BY DEF TypeOK, Idle
  <1>7. QED  BY <1>1, <1>2, <1>3, <1>4, <1>5, <1>6

\* A worker that saves writes its snapshot over the store, and loses nothing of the log.
LEMMA SaveStore ==
  ASSUME IInv, NEW w \in Workers, Save(w)
  PROVE  /\ TablesOK(store') /\ LogGrows(number[w])
         /\ Announced(store'.tasks, store'.changes)
  <1> DEFINE old == before[w]
             new == core[w]
             n   == number[w]
             Saving(x) == SaveDelta(store[x], old[x], new[x])
  <1>1. TablesOK(store) /\ TablesOK(old) /\ TablesOK(new) /\ phase[w] = "applied"
    BY DEF IInv, TypeOK, Save
  <1>2. /\ store' = [x \in Tables |-> IF x \in Saved(command[w]) THEN Saving(x) ELSE store[x]]
        /\ "changes" \in Saved(command[w])
    BY DEF Save, Saved, Tables
  <1>3. /\ IsTable(Saving("checklists"), Lists, ListRecord)
        /\ IsTable(Saving("columns"), Numbers, Lists)
    BY <1>1, SavedTable DEF TablesOK
  <1>4. IsTable(Saving("tasks"), Rows, TaskRecord)
    BY <1>1, SavedTable DEF TablesOK
  <1>5. IsTable(Saving("cells"), Numbers \X Rows \X Numbers, {None, "filled"})
    BY <1>1, SavedTable DEF TablesOK
  <1>6. IsTable(Saving("publications"), Numbers, Lists)
    BY <1>1, SavedTable DEF TablesOK
  <1>7. IsTable(Saving("changes"), Numbers,
                [kind : ChangeKinds, list : Lists, row : Rows \cup {None}])
    BY <1>1, SavedTable DEF TablesOK
  <1>8. IsTable(Saving("assignments"), Numbers, [row : Rows, list : Lists])
    BY <1>1, SavedTable DEF TablesOK
  <1>9. /\ store' = [x \in Tables |-> store'[x]]
        /\ \A x \in Tables : store'[x] = Saving(x) \/ store'[x] = store[x]
        /\ store'.changes = Saving("changes")
    BY <1>2 DEF Tables
  <1>10. TablesOK(store')
    <2> DEFINE S == store'
    <2> HIDE DEF S, Saving
    <2>1. /\ S = [x \in Tables |-> S[x]]
          /\ \A x \in Tables : S[x] = Saving(x) \/ S[x] = store[x]
      BY <1>9 DEF S
    <2>2. TablesOK(S)
      BY <1>1, <1>3, <1>4, <1>5, <1>6, <1>7, <1>8, <2>1 DEF TablesOK, Tables
    <2>3. QED  BY <2>2 DEF S
  <1>11. Follows(old, new, n)
    BY <1>1 DEF IInv, SnapshotsOfTheLog
  <1>12. /\ n \notin DOMAIN store.changes
         /\ \A m \in DOMAIN old.changes :
              m \in DOMAIN store.changes /\ old.changes[m] = store.changes[m]
    BY <1>1 DEF IInv, NumbersAreNew, SnapshotsOfTheLog
  <1>13. /\ DOMAIN Saving("changes") = DOMAIN store.changes \cup DOMAIN new.changes
         /\ \A m \in DOMAIN Saving("changes") :
              Saving("changes")[m] = IF m \in DOMAIN new.changes THEN new.changes[m]
                                     ELSE store.changes[m]
    <2>1. DOMAIN old.changes \ DOMAIN new.changes = {}
      BY <1>11 DEF Follows
    <2>2. QED  BY <2>1 DEF SaveDelta, Written, Restrict
  <1>14. LogGrows(n)
    BY <1>9, <1>11, <1>12, <1>13 DEF Follows, LogGrows
  <1>15. \A m \in DOMAIN new.changes : m \in DOMAIN store'.changes /\ store'.changes[m] = new.changes[m]
    BY <1>9, <1>13
  <1>16. Announced(store'.tasks, store'.changes)
    <2>1. \A t \in DOMAIN store'.tasks :
            \/ t \in DOMAIN new.tasks /\ store'.tasks[t] = new.tasks[t]
            \/ t \in DOMAIN store.tasks /\ store'.tasks[t] = store.tasks[t]
      <3>1. store'.tasks = Saving("tasks") \/ store'.tasks = store.tasks
        BY <1>9 DEF Tables
      <3>2. \A t \in DOMAIN Saving("tasks") :
              \/ t \in DOMAIN new.tasks /\ Saving("tasks")[t] = new.tasks[t]
              \/ t \in DOMAIN store.tasks /\ Saving("tasks")[t] = store.tasks[t]
        BY DEF SaveDelta, Written, Restrict
      <3>3. QED  BY <3>1, <3>2
    <2>2. ASSUME NEW t \in DOMAIN store.tasks
          PROVE  store.tasks[t].by = 0 \/ Says(store'.changes, store.tasks[t].by, t)
      BY <1>14, AnnouncedRows DEF IInv, Announced, Says, LogGrows
    <2>3. ASSUME NEW t \in DOMAIN new.tasks
          PROVE  new.tasks[t].by = 0 \/ Says(store'.changes, new.tasks[t].by, t)
      <3>1. CASE new.tasks[t].by = 0
        BY <3>1
      <3>2. CASE t \in DOMAIN old.tasks /\ new.tasks[t].by = old.tasks[t].by
        <4>1. old.tasks[t].by = 0 \/ Says(store.changes, old.tasks[t].by, t)
          BY <3>2 DEF IInv, SnapshotsAreAnnounced, Announced
        <4>2. QED  BY <3>2, <4>1, <1>14 DEF Says, LogGrows
      <3>3. CASE new.tasks[t].by = n /\ Says(new.changes, n, t)
        BY <3>3, <1>15 DEF Says
      <3>4. QED  BY <3>1, <3>2, <3>3, <1>11 DEF Follows
    <2>4. QED  BY <2>1, <2>2, <2>3 DEF Announced
  <1>17. QED  BY <1>10, <1>14, <1>16

LEMMA SaveInvariant ==
  ASSUME IInv, NEW w \in Workers, Save(w)
  PROVE  IInv'
  <1>1. /\ TablesOK(store') /\ LogGrows(number[w]) /\ Announced(store'.tasks, store'.changes)
    BY SaveStore
  <1>2. /\ TypeOK /\ Idle(w) /\ phase[w] = "applied" /\ UNCHANGED <<passed, commands>>
    BY DEF IInv, Save
  <1>3. behind' \in [Workers -> BOOLEAN] /\ overlapped' \in BOOLEAN
    <2>1. behind' = [v \in Workers |-> v # w /\ (behind[v] \/ read[v] > 0)]
          /\ overlapped' = (overlapped \/ behind[w])
      BY DEF Save
    <2>2. behind' \in [Workers -> BOOLEAN]
      BY <2>1
    <2>3. overlapped' \in BOOLEAN
      BY <1>2, <2>1 DEF TypeOK
    <2>4. QED  BY <2>2, <2>3
  <1>4. TypeOK'
    BY <1>1, <1>2, <1>3, IdleType DEF TypeOK
  <1>5. /\ phase'[w] = "idle" /\ read'[w] = 0 /\ before'[w] = Empty
        /\ \A v \in Workers \ {w} :
             /\ phase'[v] = phase[v] /\ command'[v] = command[v] /\ number'[v] = number[v]
             /\ read'[v] = read[v] /\ before'[v] = before[v] /\ core'[v] = core[v]
    BY <1>2, IdleType
  <1>6. NumbersAreNew'
    <2>1. number[w] \in 1..commands
      BY <1>2 DEF IInv, NumbersAreNew
    <2>2. DOMAIN store'.changes \subseteq 1..commands'
      BY <1>1, <1>2, <2>1 DEF IInv, NumbersAreNew, LogGrows
    <2>3. ASSUME NEW v \in Workers \ {w}, phase[v] # "idle"
          PROVE  number[v] \notin DOMAIN store'.changes
      BY <1>1, <1>2, <2>3 DEF IInv, NumbersAreNew, LogGrows
    <2>4. QED  BY <1>2, <1>5, <2>2, <2>3 DEF IInv, NumbersAreNew
  <1>7. SnapshotsOfTheLog'
    <2>1. \A v \in Workers \ {w} : \A n \in DOMAIN before[v].changes :
            n \in DOMAIN store'.changes /\ before[v].changes[n] = store'.changes[n]
      BY <1>1 DEF IInv, SnapshotsOfTheLog, LogGrows
    <2>2. DOMAIN before'[w].changes = {}
      BY <1>5, EmptyLog
    <2>3. QED  BY <1>5, <2>1, <2>2 DEF IInv, SnapshotsOfTheLog
  <1>8. SnapshotsAreAnnounced'
    <2>1. \A v \in Workers \ {w} : Announced(before[v].tasks, store'.changes)
      <3>1. \A n, t : Says(store.changes, n, t) => Says(store'.changes, n, t)
        BY <1>1 DEF Says, LogGrows
      <3>2. QED  BY <3>1 DEF IInv, SnapshotsAreAnnounced, Announced
    <2>2. Announced(before'[w].tasks, store'.changes)
      BY <1>5, EmptyLog DEF Announced
    <2>3. QED  BY <1>5, <2>1, <2>2 DEF SnapshotsAreAnnounced
  <1>9. AddedRowsAreAnnounced'
    BY <1>1 DEF AddedRowsAreAnnounced, Announced, Says
  <1>10. QED  BY <1>4, <1>6, <1>7, <1>8, <1>9 DEF IInv

LEMMA DropInvariant ==
  ASSUME IInv, NEW w \in Workers, Discard(w) \/ Fail(w)
  PROVE  IInv'
  <1>1. /\ TypeOK /\ Idle(w) /\ UNCHANGED <<store, passed, commands, overlapped>>
        /\ behind' = [behind EXCEPT ![w] = FALSE]
    BY DEF IInv, Discard, Fail
  <1>2. behind' \in [Workers -> BOOLEAN]
    BY <1>1 DEF TypeOK
  <1>3. TypeOK'
    BY <1>1, <1>2, IdleType DEF TypeOK
  <1>4. /\ phase'[w] = "idle" /\ read'[w] = 0 /\ before'[w] = Empty
        /\ \A v \in Workers \ {w} :
             /\ phase'[v] = phase[v] /\ command'[v] = command[v] /\ number'[v] = number[v]
             /\ read'[v] = read[v] /\ before'[v] = before[v] /\ core'[v] = core[v]
    BY <1>1, IdleType
  <1>5. NumbersAreNew'
    BY <1>1, <1>4 DEF IInv, NumbersAreNew
  <1>6. SnapshotsOfTheLog'
    BY <1>1, <1>4, EmptyLog DEF IInv, SnapshotsOfTheLog
  <1>7. SnapshotsAreAnnounced'
    BY <1>1, <1>4, EmptyLog DEF IInv, SnapshotsAreAnnounced, Announced
  <1>8. AddedRowsAreAnnounced'
    BY <1>1 DEF IInv, AddedRowsAreAnnounced
  <1>9. QED  BY <1>3, <1>5, <1>6, <1>7, <1>8 DEF IInv

LEMMA StillInvariant ==
  ASSUME IInv, TimePasses \/ UNCHANGED vars
  PROVE  IInv'
  <1>1. /\ passed' \in BOOLEAN
        /\ UNCHANGED <<store, commands, phase, command, number, read, before, core, ok,
                       behind, overlapped>>
    BY DEF IInv, TypeOK, TimePasses, vars, local
  <1>2. TypeOK'
    BY <1>1 DEF IInv, TypeOK
  <1>3. NumbersAreNew' /\ SnapshotsOfTheLog'
    BY <1>1 DEF IInv, NumbersAreNew, SnapshotsOfTheLog
  <1>4. SnapshotsAreAnnounced' /\ AddedRowsAreAnnounced'
    BY <1>1 DEF IInv, SnapshotsAreAnnounced, AddedRowsAreAnnounced
  <1>5. QED  BY <1>2, <1>3, <1>4 DEF IInv

LEMMA NextInvariant == IInv /\ [Next]_vars => IInv'
  <1> SUFFICES ASSUME IInv, [Next]_vars  PROVE  IInv'
    OBVIOUS
  <1>1. CASE \E w \in Workers, c \in Requests : Begin(w, c)
    BY <1>1, BeginInvariant
  <1>2. CASE \E w \in Workers : Read(w)
    BY <1>2, ReadInvariant
  <1>3. CASE \E w \in Workers : Apply(w)
    BY <1>3, ApplyInvariant
  <1>4. CASE \E w \in Workers : Save(w)
    BY <1>4, SaveInvariant
  <1>5. CASE \E w \in Workers : Discard(w) \/ Fail(w)
    BY <1>5, DropInvariant
  <1>6. CASE TimePasses \/ UNCHANGED vars
    BY <1>6, StillInvariant
  <1>7. QED  BY <1>1, <1>2, <1>3, <1>4, <1>5, <1>6 DEF Next

LEMMA Invariant == Spec => []IInv
  BY InitInvariant, NextInvariant, PTL DEF Spec

-----------------------------------------------------------------------------
(* What holds for any lists, rows, workers and commands.                   *)

\* The store and every snapshot and core of a worker hold rows of the right form under
\* keys of the right form, whatever commands overlap (apply_checklist_command).
THEOREM TypeCorrect == Spec => []TypeOK
  <1>1. IInv => TypeOK
    BY DEF IInv
  <1>2. QED  BY <1>1, Invariant, PTL

\* However many workers overlap, a stored row that row.add made has its mission change in
\* the store (add_checklist_task_row and emit_auto_checklist_mission_change, saved together).
THEOREM RowsAreAnnounced == Spec => []AddedRowsAreAnnounced
  <1>1. IInv => AddedRowsAreAnnounced
    BY DEF IInv
  <1>2. QED  BY <1>1, Invariant, PTL

\* No save drops or alters a stored mission change, although each writes a whole
\* snapshot over the store that others may have changed (save_payload_delta).
THEOREM LogIsKept == Spec => ChangesAreKept
  <1> DEFINE Kept == \A n \in DOMAIN store.changes :
                       n \in DOMAIN store'.changes /\ store'.changes[n] = store.changes[n]
  <1>1. IInv /\ [Next]_vars => [Kept]_vars
    <2> SUFFICES ASSUME IInv, Next  PROVE  Kept
      OBVIOUS
    <2>1. CASE \E w \in Workers : Save(w)
      <3>1. PICK w \in Workers : Save(w)
        BY <2>1
      <3>2. LogGrows(number[w])
        BY <3>1, SaveStore
      <3>3. QED  BY <3>2 DEF LogGrows
    <2>2. CASE store' = store
      BY <2>2
    <2>3. \/ \E w \in Workers : Save(w)
          \/ store' = store
      <3>1. ASSUME NEW w \in Workers, Apply(w)  PROVE  store' = store
        BY <3>1 DEF Apply, Answer, Accept, Reject, CreateNew, CreateExisting, CreateRejected,
           RowAdd, RowDelete, RowStyleSet, CellSet, CellRejected, StatusSet, RowMissing,
           Update, Delete, Upload, Publish, Join, ListMissing, Assign
      <3>2. QED  BY <3>1 DEF Next, Begin, Read, Discard, Fail, TimePasses
    <2>4. QED  BY <2>1, <2>2, <2>3
  <1>2. QED  BY <1>1, Invariant, PTL DEF Spec, ChangesAreKept

-----------------------------------------------------------------------------
(* The tables of the checklists agree with each other.                     *)

CellsAt(T, t, column) == {k \in DOMAIN T.cells : k[2] = t /\ k[3] = column}

\* The counts of a list are those of its tasks.
Counted(T, l) ==
  LET tasks == TasksOf(T, l)
      done  == {t \in tasks : T.tasks[t].user = "COMPLETE"}
      late  == {t \in tasks : T.tasks[t].status = "LATE"}
  IN /\ T.checklists[l].pending  = Cardinality(tasks \ done)
     /\ T.checklists[l].complete = Cardinality(done)
     /\ T.checklists[l].late     = Cardinality(late)

\* Every row belongs to rows that are there, and a task has its cells.
Placed(T) ==
  /\ \A t \in DOMAIN T.tasks : T.tasks[t].list \in DOMAIN T.checklists
  /\ \A t \in DOMAIN T.tasks : \A column \in ColumnsOf(T, T.tasks[t].list) :
       \E k \in DOMAIN T.cells : CellsAt(T, t, column) = {k}
  /\ \A k \in DOMAIN T.cells :
       k[2] \in DOMAIN T.tasks /\ k[3] \in ColumnsOf(T, T.tasks[k[2]].list)
  /\ \A k \in DOMAIN T.columns : T.columns[k] \in DOMAIN T.checklists
  /\ \A k \in DOMAIN T.publications : T.publications[k] \in DOMAIN T.checklists

Agree(T) == Placed(T) /\ \A l \in DOMAIN T.checklists : Counted(T, l)

\* All agrees but for the counts of one list.
AgreeBut(T, l) ==
  /\ Placed(T) /\ l \in DOMAIN T.checklists
  /\ \A k \in DOMAIN T.checklists \ {l} : Counted(T, k)

ListTables == {"checklists", "columns", "tasks", "cells", "publications"}

\* The counts of a list whose record and tasks stay as they are.
LEMMA SameCounts ==
  ASSUME NEW T, NEW U, NEW l, Counted(T, l), TasksOf(U, l) = TasksOf(T, l),
         \A t \in TasksOf(T, l) : /\ U.tasks[t].user = T.tasks[t].user
                                  /\ U.tasks[t].status = T.tasks[t].status,
         /\ U.checklists[l].pending = T.checklists[l].pending
         /\ U.checklists[l].complete = T.checklists[l].complete
         /\ U.checklists[l].late = T.checklists[l].late
  PROVE  Counted(U, l)
  <1>1. /\ {t \in TasksOf(U, l) : U.tasks[t].user = "COMPLETE"}
             = {t \in TasksOf(T, l) : T.tasks[t].user = "COMPLETE"}
        /\ {t \in TasksOf(U, l) : U.tasks[t].status = "LATE"}
             = {t \in TasksOf(T, l) : T.tasks[t].status = "LATE"}
    OBVIOUS
  <1>2. QED  BY <1>1 DEF Counted

LEMMA SameTablesAgree ==
  ASSUME NEW T, NEW U, \A x \in ListTables : U[x] = T[x], Agree(T)
  PROVE  Agree(U)
  <1>1. /\ U.checklists = T.checklists /\ U.columns = T.columns /\ U.tasks = T.tasks
        /\ U.cells = T.cells /\ U.publications = T.publications
    BY DEF ListTables
  <1>2. Placed(U)
    BY <1>1 DEF Agree, Placed, ColumnsOf, CellsAt
  <1>3. ASSUME NEW l \in DOMAIN U.checklists  PROVE  Counted(U, l)
    <2>1. Counted(T, l)
      BY <1>1 DEF Agree
    <2>2. TasksOf(U, l) = TasksOf(T, l)
      BY <1>1 DEF TasksOf
    <2>3. QED  BY <1>1, <2>1, <2>2, SameCounts
  <1>4. QED  BY <1>2, <1>3 DEF Agree

\* Recomputing a list counts it and leaves the rest alone.
LEMMA RecomputedCounts ==
  ASSUME NEW T, TablesOK(T), NEW l \in DOMAIN T.checklists
  PROVE  LET U == Recomputed(T, l) IN
         /\ Counted(U, l)
         /\ DOMAIN U.tasks = DOMAIN T.tasks
         /\ \A t \in DOMAIN T.tasks : U.tasks[t].list = T.tasks[t].list
         /\ \A t \in DOMAIN T.tasks \ TasksOf(T, l) : U.tasks[t] = T.tasks[t]
         /\ DOMAIN U.checklists = DOMAIN T.checklists
         /\ \A k \in DOMAIN T.checklists \ {l} : U.checklists[k] = T.checklists[k]
         /\ U.columns = T.columns /\ U.cells = T.cells /\ U.publications = T.publications
  <1> DEFINE tasks == [t \in DOMAIN T.tasks |->
                         IF t \in TasksOf(T, l)
                         THEN [T.tasks[t] EXCEPT !.status = Derived(T.tasks[t])]
                         ELSE T.tasks[t]]
             With(status) == {t \in TasksOf(T, l) : tasks[t].status = status}
             complete == {t \in TasksOf(T, l) : tasks[t].user = "COMPLETE"}
             pending  == Cardinality(TasksOf(T, l) \ complete)
             late     == Cardinality(With("LATE"))
             list == [T.checklists[l] EXCEPT
                        !.pending = pending, !.late = late, !.complete = Cardinality(complete),
                        !.status = Summary(pending, late, Cardinality(complete),
                                           With("COMPLETE_LATE") # {})]
             lists == [T.checklists EXCEPT ![l] = list]
             U == Recomputed(T, l)
  <1>1. \A t \in DOMAIN T.tasks : T.tasks[t] \in TaskRecord
    BY DEF TablesOK, IsTable, Range
  <1>2. \A t \in DOMAIN T.tasks : tasks[t].list = T.tasks[t].list
    BY <1>1 DEF TaskRecord
  <1>3. \A t \in DOMAIN T.tasks \ TasksOf(T, l) : tasks[t] = T.tasks[t]
    OBVIOUS
  <1>4. T.checklists[l] \in ListRecord
    BY DEF TablesOK, IsTable, Range
  <1>5. /\ list.pending = Cardinality(TasksOf(T, l) \ complete)
        /\ list.complete = Cardinality(complete) /\ list.late = Cardinality(With("LATE"))
    BY <1>4 DEF ListRecord
  <1>6. Recomputed(T, l) = [T EXCEPT !.tasks = tasks, !.checklists = lists]
    BY DEF Recomputed, TablesOK, Tables
  <1>7. DOMAIN tasks = DOMAIN T.tasks
    OBVIOUS
  <1> HIDE DEF tasks, list
  <1>8. /\ DOMAIN lists = DOMAIN T.checklists /\ lists[l] = list
        /\ \A k \in DOMAIN T.checklists \ {l} : lists[k] = T.checklists[k]
    OBVIOUS
  <1> HIDE DEF lists
  <1>9. /\ U.tasks = tasks /\ U.checklists = lists
        /\ U.columns = T.columns /\ U.cells = T.cells /\ U.publications = T.publications
    BY <1>6 DEF TablesOK, Tables
  <1> HIDE DEF U
  <1>10. TasksOf(U, l) = TasksOf(T, l)
    BY <1>2, <1>7, <1>9 DEF TasksOf
  <1>11. U.checklists[l] = list
    BY <1>8, <1>9
  <1>12. Counted(U, l)
    BY <1>5, <1>9, <1>10, <1>11 DEF Counted
  <1>13. QED
    BY <1>2, <1>3, <1>7, <1>8, <1>9, <1>12 DEF U

LEMMA RecomputedAgrees ==
  ASSUME NEW T, TablesOK(T), NEW l, AgreeBut(T, l)
  PROVE  Agree(Recomputed(T, l)) /\ Recomputed(T, l).columns = T.columns
  <1> DEFINE U == Recomputed(T, l)
  <1>1. l \in DOMAIN T.checklists
    BY DEF AgreeBut
  <1>2. /\ Counted(U, l)
        /\ DOMAIN U.tasks = DOMAIN T.tasks
        /\ \A t \in DOMAIN T.tasks : U.tasks[t].list = T.tasks[t].list
        /\ \A t \in DOMAIN T.tasks \ TasksOf(T, l) : U.tasks[t] = T.tasks[t]
        /\ DOMAIN U.checklists = DOMAIN T.checklists
        /\ \A k \in DOMAIN T.checklists \ {l} : U.checklists[k] = T.checklists[k]
        /\ U.columns = T.columns /\ U.cells = T.cells /\ U.publications = T.publications
    BY <1>1, RecomputedCounts
  <1> HIDE DEF U
  <1>3. Placed(U)
    <2>1. Placed(T)
      BY DEF AgreeBut
    <2>2. \A k : ColumnsOf(U, k) = ColumnsOf(T, k)
      BY <1>2 DEF ColumnsOf
    <2>3. \A t, column : CellsAt(U, t, column) = CellsAt(T, t, column)
      BY <1>2 DEF CellsAt
    <2>4. QED  BY <1>2, <2>1, <2>2, <2>3 DEF Placed
  <1>4. ASSUME NEW k \in DOMAIN U.checklists, k # l  PROVE  Counted(U, k)
    <2>1. Counted(T, k)
      BY <1>2, <1>4 DEF AgreeBut
    <2>2. TasksOf(U, k) = TasksOf(T, k)
      BY <1>2 DEF TasksOf
    <2>3. \A t \in TasksOf(T, k) : t \in DOMAIN T.tasks \ TasksOf(T, l)
      BY <1>4 DEF TasksOf
    <2>4. QED  BY <1>2, <1>4, <2>1, <2>2, <2>3, SameCounts
  <1>5. Agree(U)
    BY <1>2, <1>3, <1>4 DEF Agree
  <1>6. QED  BY <1>2, <1>5 DEF U

LEMMA AgreeIsAgreeBut ==
  ASSUME NEW T, Agree(T), NEW l \in DOMAIN T.checklists
  PROVE  AgreeBut(T, l)
  BY DEF Agree, AgreeBut

\* New rows get a cell in every column; rows that were there belong to the list.
LEMMA RowsAddedAgrees ==
  ASSUME NEW T, TablesOK(T), NEW l, AgreeBut(T, l), NEW R \in SUBSET Rows,
         \A t \in R : t \in DOMAIN T.tasks => T.tasks[t].list = l,
         NEW due \in BOOLEAN, NEW n \in Numbers, NEW by \in 0..MaxCommands
  PROVE  /\ Agree(RowsAdded(T, l, R, due, n, by))
         /\ RowsAdded(T, l, R, due, n, by).columns = T.columns
  <1> DEFINE new   == R \ DOMAIN T.tasks
             fresh == [list |-> l, user |-> "PENDING", status |-> "PENDING", due |-> due,
                       completed |-> "no", by |-> by]
             added == {n} \X new \X ColumnsOf(T, l)
             old   == [t \in DOMAIN T.tasks |->
                         IF t \in R THEN [T.tasks[t] EXCEPT !.due = due] ELSE T.tasks[t]]
             tasks == Written(old, [t \in new |-> fresh])
             cells == Written(T.cells, [k \in added |-> None])
             V     == [T EXCEPT !.tasks = tasks, !.cells = cells]
  <1>1. l \in Lists /\ l \in DOMAIN T.checklists
    BY DEF AgreeBut, TablesOK, IsTable
  <1>2. \A t \in DOMAIN T.tasks : T.tasks[t] \in TaskRecord
    BY DEF TablesOK, IsTable, Range
  <1>3. IsTable(old, Rows, TaskRecord)
    <2>1. \A t \in DOMAIN old : old[t] \in TaskRecord
      BY <1>2 DEF TaskRecord
    <2>2. QED  BY <2>1, ZenonT(60) DEF TablesOK, IsTable, Range
  <1>4. fresh \in TaskRecord
    BY <1>1 DEF TaskRecord, Statuses
  <1>5. IsTable([t \in new |-> fresh], Rows, TaskRecord)
    BY <1>4 DEF IsTable, Range
  <1>6. IsTable(tasks, Rows, TaskRecord)
    BY <1>3, <1>5, WrittenTable
  <1>7. ColumnsOf(T, l) \subseteq Numbers
    BY DEF TablesOK, IsTable, ColumnsOf
  <1>8. IsTable([k \in added |-> None], Numbers \X Rows \X Numbers, {None, "filled"})
    BY <1>7 DEF IsTable, Range
  <1>9. IsTable(cells, Numbers \X Rows \X Numbers, {None, "filled"})
    <2>1. IsTable(T.cells, Numbers \X Rows \X Numbers, {None, "filled"})
      BY DEF TablesOK
    <2>2. QED  BY <1>8, <2>1, WrittenTable
  <1>10. /\ DOMAIN tasks = DOMAIN T.tasks \cup R
         /\ \A t \in DOMAIN T.tasks \ R : tasks[t] = T.tasks[t]
         /\ \A t \in R : tasks[t].list = l
         /\ \A t \in DOMAIN T.tasks : tasks[t].list = T.tasks[t].list
    BY <1>2 DEF Written, TaskRecord
  <1>11. DOMAIN cells = DOMAIN T.cells \cup added
    BY DEF Written
  <1> HIDE DEF tasks, cells
  <1>12. /\ V.tasks = tasks /\ V.cells = cells
         /\ \A x \in Tables \ {"tasks", "cells"} : V[x] = T[x]
         /\ V = [x \in Tables |-> V[x]]
    BY DEF TablesOK, Tables
  <1>13. /\ V.checklists = T.checklists /\ V.columns = T.columns
         /\ V.publications = T.publications
    BY <1>12 DEF Tables
  <1>14. TablesOK(V)
    BY <1>6, <1>9, <1>12 DEF TablesOK, Tables
  <1>15. RowsAdded(T, l, R, due, n, by) = Recomputed(V, l)
    BY DEF RowsAdded, tasks, cells
  <1> HIDE DEF V
  <1>16. \A k : ColumnsOf(V, k) = ColumnsOf(T, k)
    BY <1>13 DEF ColumnsOf
  <1>17. Placed(T)
    BY DEF AgreeBut
  <1>18. \A k \in added : /\ k[2] \in R \ DOMAIN T.tasks /\ k[3] \in ColumnsOf(T, l)
                          /\ k = <<n, k[2], k[3]>>
    OBVIOUS
  <1>19. \A t \in new, column \in ColumnsOf(T, l) : <<n, t, column>> \in added
    OBVIOUS
  <1> HIDE DEF added
  <1>20. \A k \in DOMAIN V.cells :
           k[2] \in DOMAIN V.tasks /\ k[3] \in ColumnsOf(V, V.tasks[k[2]].list)
    <2>1. ASSUME NEW k \in DOMAIN T.cells
          PROVE  k[2] \in DOMAIN V.tasks /\ k[3] \in ColumnsOf(V, V.tasks[k[2]].list)
      <3>1. k[2] \in DOMAIN T.tasks /\ k[3] \in ColumnsOf(T, T.tasks[k[2]].list)
        BY <1>17 DEF Placed
      <3>2. QED  BY <1>10, <1>12, <1>16, <3>1
    <2>2. ASSUME NEW k \in added
          PROVE  k[2] \in DOMAIN V.tasks /\ k[3] \in ColumnsOf(V, V.tasks[k[2]].list)
      BY <1>10, <1>12, <1>16, <1>18
    <2>3. QED  BY <1>11, <1>12, <2>1, <2>2
  <1>21. ASSUME NEW t \in DOMAIN T.tasks, NEW column \in ColumnsOf(V, V.tasks[t].list)
         PROVE  \E k \in DOMAIN V.cells : CellsAt(V, t, column) = {k}
    <2>1. column \in ColumnsOf(T, T.tasks[t].list)
      BY <1>10, <1>12, <1>16
    <2>2. PICK k \in DOMAIN T.cells : CellsAt(T, t, column) = {k}
      BY <1>17, <2>1 DEF Placed
    <2>3. CellsAt(V, t, column) = CellsAt(T, t, column)
      BY <1>11, <1>12, <1>18 DEF CellsAt
    <2>4. QED  BY <1>11, <1>12, <2>2, <2>3
  <1>22. ASSUME NEW t \in new, NEW column \in ColumnsOf(V, V.tasks[t].list)
         PROVE  \E k \in DOMAIN V.cells : CellsAt(V, t, column) = {k}
    <2> DEFINE k == <<n, t, column>>
    <2>1. column \in ColumnsOf(T, l)
      BY <1>10, <1>12, <1>16
    <2>2. k \in added /\ k[2] = t /\ k[3] = column
      BY <1>19, <2>1
    <2> HIDE DEF k
    <2>3. \A j \in DOMAIN T.cells : j[2] # t
      BY <1>17 DEF Placed
    <2>4. \A j \in added : j[2] = t /\ j[3] = column => j = k
      BY <1>18 DEF k
    <2>5. CellsAt(V, t, column) = {k}
      BY <1>11, <1>12, <2>2, <2>3, <2>4 DEF CellsAt
    <2>6. QED  BY <1>11, <1>12, <2>2, <2>5
  <1>23. Placed(V)
    <2>1. DOMAIN V.tasks = DOMAIN T.tasks \cup new
      BY <1>10, <1>12
    <2>2. \A t \in DOMAIN V.tasks : V.tasks[t].list \in DOMAIN V.checklists
      BY <1>1, <1>10, <1>12, <1>13, <1>17 DEF Placed
    <2>3. \A t \in DOMAIN V.tasks : \A column \in ColumnsOf(V, V.tasks[t].list) :
            \E k \in DOMAIN V.cells : CellsAt(V, t, column) = {k}
      BY <1>21, <1>22, <2>1
    <2>4. QED  BY <1>13, <1>17, <1>20, <2>2, <2>3 DEF Placed
  <1>24. ASSUME NEW k \in DOMAIN V.checklists, k # l  PROVE  Counted(V, k)
    <2>1. Counted(T, k)
      BY <1>13, <1>24 DEF AgreeBut
    <2>2. \A t \in R : t \notin TasksOf(T, k)
      BY <1>24 DEF TasksOf
    <2>3. TasksOf(V, k) = TasksOf(T, k)
      BY <1>10, <1>12, <1>24 DEF TasksOf
    <2>4. \A t \in TasksOf(T, k) : V.tasks[t] = T.tasks[t]
      BY <1>10, <1>12, <2>2 DEF TasksOf
    <2>5. QED  BY <1>13, <2>1, <2>3, <2>4, SameCounts
  <1>25. AgreeBut(V, l)
    BY <1>1, <1>13, <1>23, <1>24 DEF AgreeBut
  <1>26. QED  BY <1>13, <1>14, <1>15, <1>25, RecomputedAgrees

\* A row goes with its cells, and its list is counted again.
LEMMA RowRemovedAgrees ==
  ASSUME NEW T, TablesOK(T), NEW l, AgreeBut(T, l), NEW r \in TasksOf(T, l)
  PROVE  Agree(RowRemoved(T, l, r)) /\ RowRemoved(T, l, r).columns = T.columns
  <1> DEFINE tasks == Restrict(T.tasks, DOMAIN T.tasks \ {r})
             cells == Restrict(T.cells, {k \in DOMAIN T.cells : k[2] # r})
             V     == [T EXCEPT !.tasks = tasks, !.cells = cells]
  <1>1. IsTable(tasks, Rows, TaskRecord)
    BY RestrictedTable DEF TablesOK
  <1>2. IsTable(cells, Numbers \X Rows \X Numbers, {None, "filled"})
    BY RestrictedTable DEF TablesOK
  <1>3. /\ DOMAIN tasks = DOMAIN T.tasks \ {r}
        /\ \A t \in DOMAIN T.tasks \ {r} : tasks[t] = T.tasks[t]
        /\ DOMAIN cells = {k \in DOMAIN T.cells : k[2] # r}
    BY DEF Restrict
  <1> HIDE DEF tasks, cells
  <1>4. /\ V.tasks = tasks /\ V.cells = cells
        /\ \A x \in Tables \ {"tasks", "cells"} : V[x] = T[x]
        /\ V = [x \in Tables |-> V[x]]
    BY DEF TablesOK, Tables
  <1>5. /\ V.checklists = T.checklists /\ V.columns = T.columns
        /\ V.publications = T.publications
    BY <1>4 DEF Tables
  <1>6. TablesOK(V)
    BY <1>1, <1>2, <1>4 DEF TablesOK, Tables
  <1>7. RowRemoved(T, l, r) = Recomputed(V, l)
    BY DEF RowRemoved, tasks, cells
  <1> HIDE DEF V
  <1>8. \A k : ColumnsOf(V, k) = ColumnsOf(T, k)
    BY <1>5 DEF ColumnsOf
  <1>9. \A t, column : t # r => CellsAt(V, t, column) = CellsAt(T, t, column)
    BY <1>3, <1>4 DEF CellsAt
  <1>10. Placed(T)
    BY DEF AgreeBut
  <1>11. ASSUME NEW t \in DOMAIN V.tasks, NEW column \in ColumnsOf(V, V.tasks[t].list)
         PROVE  \E k \in DOMAIN V.cells : CellsAt(V, t, column) = {k}
    <2>1. t \in DOMAIN T.tasks /\ t # r /\ column \in ColumnsOf(T, T.tasks[t].list)
      BY <1>3, <1>4, <1>8
    <2>2. PICK k \in DOMAIN T.cells : CellsAt(T, t, column) = {k}
      BY <1>10, <2>1 DEF Placed
    <2>3. CellsAt(V, t, column) = {k}
      BY <1>9, <2>1, <2>2
    <2>4. QED  BY <2>3 DEF CellsAt
  <1>12. \A k \in DOMAIN V.cells :
           k[2] \in DOMAIN V.tasks /\ k[3] \in ColumnsOf(V, V.tasks[k[2]].list)
    BY <1>3, <1>4, <1>8, <1>10 DEF Placed
  <1>13. Placed(V)
    BY <1>3, <1>4, <1>5, <1>10, <1>11, <1>12 DEF Placed
  <1>14. ASSUME NEW k \in DOMAIN V.checklists, k # l  PROVE  Counted(V, k)
    <2>1. Counted(T, k)
      BY <1>5, <1>14 DEF AgreeBut
    <2>2. r \notin TasksOf(T, k)
      BY <1>14 DEF TasksOf
    <2>3. TasksOf(V, k) = TasksOf(T, k)
      BY <1>3, <1>4, <2>2 DEF TasksOf
    <2>4. \A t \in TasksOf(T, k) : V.tasks[t] = T.tasks[t]
      BY <1>3, <1>4, <2>2 DEF TasksOf
    <2>5. QED  BY <1>5, <2>1, <2>3, <2>4, SameCounts
  <1>15. AgreeBut(V, l)
    BY <1>5, <1>13, <1>14 DEF AgreeBut
  <1>16. QED  BY <1>5, <1>6, <1>7, <1>15, RecomputedAgrees

\* A list goes with everything that belongs to it, and leaves the others alone.
LEMMA ListRemovedAgrees ==
  ASSUME NEW T, TablesOK(T), Agree(T), NEW l
  PROVE  /\ Agree(ListRemoved(T, l))
         /\ DOMAIN ListRemoved(T, l).columns \subseteq DOMAIN T.columns
  <1> DEFINE gone         == TasksOf(T, l)
             checklists   == Restrict(T.checklists, DOMAIN T.checklists \ {l})
             columns      == Restrict(T.columns, DOMAIN T.columns \ ColumnsOf(T, l))
             tasks        == Restrict(T.tasks, DOMAIN T.tasks \ gone)
             cells        == Restrict(T.cells, {k \in DOMAIN T.cells : k[2] \notin gone})
             publications == Restrict(T.publications,
                                      {k \in DOMAIN T.publications : T.publications[k] # l})
             V            == ListRemoved(T, l)
  <1>1. /\ DOMAIN checklists = DOMAIN T.checklists \ {l}
        /\ \A k \in DOMAIN checklists : checklists[k] = T.checklists[k]
    BY DEF Restrict
  <1>2. /\ DOMAIN columns = DOMAIN T.columns \ ColumnsOf(T, l)
        /\ \A k \in DOMAIN columns : columns[k] = T.columns[k]
    BY DEF Restrict
  <1>3. /\ DOMAIN tasks = DOMAIN T.tasks \ gone
        /\ \A k \in DOMAIN tasks : tasks[k] = T.tasks[k]
    BY DEF Restrict
  <1>4. DOMAIN cells = {k \in DOMAIN T.cells : k[2] \notin gone}
    BY DEF Restrict
  <1>5. /\ DOMAIN publications = {k \in DOMAIN T.publications : T.publications[k] # l}
        /\ \A k \in DOMAIN publications : publications[k] = T.publications[k]
    BY DEF Restrict
  <1>6. /\ V.checklists = checklists /\ V.columns = columns /\ V.tasks = tasks
        /\ V.cells = cells /\ V.publications = publications
    BY DEF ListRemoved, TablesOK, Tables
  <1> HIDE DEF checklists, columns, tasks, cells, publications, V
  <1>7. Placed(T) /\ \A k \in DOMAIN T.checklists : Counted(T, k)
    BY DEF Agree
  <1>8. \A k : k # l => ColumnsOf(V, k) = ColumnsOf(T, k)
    BY <1>2, <1>6 DEF ColumnsOf
  <1>9. \A k : k # l => TasksOf(V, k) = TasksOf(T, k)
    BY <1>3, <1>6 DEF TasksOf
  <1>10. \A t \in DOMAIN V.tasks : /\ t \in DOMAIN T.tasks /\ V.tasks[t] = T.tasks[t]
                                   /\ T.tasks[t].list # l /\ t \notin gone
    BY <1>3, <1>6 DEF TasksOf
  <1> HIDE DEF gone
  <1>11. ASSUME NEW t \in DOMAIN V.tasks, NEW column \in ColumnsOf(V, V.tasks[t].list)
         PROVE  \E k \in DOMAIN V.cells : CellsAt(V, t, column) = {k}
    <2>1. column \in ColumnsOf(T, T.tasks[t].list)
      BY <1>8, <1>10
    <2>2. PICK k \in DOMAIN T.cells : CellsAt(T, t, column) = {k}
      BY <1>7, <1>10, <2>1 DEF Placed
    <2>3. CellsAt(V, t, column) = CellsAt(T, t, column)
      BY <1>4, <1>6, <1>10 DEF CellsAt
    <2>4. CellsAt(V, t, column) = {k}
      BY <2>2, <2>3
    <2>5. QED  BY <2>4 DEF CellsAt
  <1>12. ASSUME NEW k \in DOMAIN V.cells
         PROVE  k[2] \in DOMAIN V.tasks /\ k[3] \in ColumnsOf(V, V.tasks[k[2]].list)
    <2>1. k \in DOMAIN T.cells /\ k[2] \notin gone
      BY <1>4, <1>6
    <2>2. k[2] \in DOMAIN T.tasks /\ k[3] \in ColumnsOf(T, T.tasks[k[2]].list)
      BY <1>7, <2>1 DEF Placed
    <2>3. k[2] \in DOMAIN V.tasks
      BY <1>3, <1>6, <2>1, <2>2
    <2>4. QED  BY <1>8, <1>10, <2>2, <2>3
  <1>13. Placed(V)
    <2>1. \A t \in DOMAIN V.tasks : V.tasks[t].list \in DOMAIN V.checklists
      BY <1>1, <1>6, <1>7, <1>10 DEF Placed
    <2>2. \A k \in DOMAIN V.columns : V.columns[k] \in DOMAIN V.checklists
      BY <1>1, <1>2, <1>6, <1>7 DEF Placed, ColumnsOf
    <2>3. \A k \in DOMAIN V.publications : V.publications[k] \in DOMAIN V.checklists
      BY <1>1, <1>5, <1>6, <1>7 DEF Placed
    <2>4. QED  BY <1>11, <1>12, <2>1, <2>2, <2>3 DEF Placed
  <1>14. ASSUME NEW k \in DOMAIN V.checklists  PROVE  Counted(V, k)
    <2>1. k # l /\ k \in DOMAIN T.checklists /\ V.checklists[k] = T.checklists[k]
      BY <1>1, <1>6
    <2>2. Counted(T, k) /\ TasksOf(V, k) = TasksOf(T, k)
      BY <1>7, <1>9, <2>1
    <2>3. \A t \in TasksOf(T, k) : V.tasks[t] = T.tasks[t]
      BY <1>10, <2>2 DEF TasksOf
    <2>4. QED  BY <2>1, <2>2, <2>3, SameCounts
  <1>15. Agree(V)
    BY <1>13, <1>14 DEF Agree
  <1>16. QED  BY <1>2, <1>6, <1>15 DEF V

\* A list whose counts are not touched goes on agreeing with its tasks.
LEMMA ListWrittenAgrees ==
  ASSUME NEW T, TablesOK(T), Agree(T), NEW l \in DOMAIN T.checklists, NEW list,
         list.pending = T.checklists[l].pending, list.complete = T.checklists[l].complete,
         list.late = T.checklists[l].late
  PROVE  LET U == [T EXCEPT !.checklists[l] = list] IN Agree(U) /\ U.columns = T.columns
  <1> DEFINE lists == [T.checklists EXCEPT ![l] = list]
             U     == [T EXCEPT !.checklists[l] = list]
  <1>1. /\ DOMAIN lists = DOMAIN T.checklists /\ lists[l] = list
        /\ \A k \in DOMAIN T.checklists \ {l} : lists[k] = T.checklists[k]
    OBVIOUS
  <1>2. /\ U.checklists = lists /\ U.columns = T.columns /\ U.tasks = T.tasks
        /\ U.cells = T.cells /\ U.publications = T.publications
    BY DEF TablesOK, Tables
  <1> HIDE DEF lists, U
  <1>3. Placed(U)
    BY <1>1, <1>2 DEF Agree, Placed, ColumnsOf, CellsAt
  <1>4. ASSUME NEW k \in DOMAIN U.checklists  PROVE  Counted(U, k)
    <2>1. Counted(T, k)
      BY <1>1, <1>2 DEF Agree
    <2>2. TasksOf(U, k) = TasksOf(T, k)
      BY <1>2 DEF TasksOf
    <2>3. /\ U.checklists[k].pending = T.checklists[k].pending
          /\ U.checklists[k].complete = T.checklists[k].complete
          /\ U.checklists[k].late = T.checklists[k].late
      BY <1>1, <1>2
    <2>4. QED  BY <1>2, <2>1, <2>2, <2>3, SameCounts
  <1>5. Agree(U)
    BY <1>3, <1>4 DEF Agree
  <1>6. QED  BY <1>2, <1>5 DEF U

LEMMA PatchedAgrees ==
  ASSUME NEW T, TablesOK(T), Agree(T), NEW l \in DOMAIN T.checklists, NEW patch \in Patches
  PROVE  Agree(Patched(T, l, patch)) /\ Patched(T, l, patch).columns = T.columns
  <1> DEFINE good == Restrict(patch, Accepted(patch))
             list == Written(T.checklists[l], good)
  <1>1. T.checklists[l] \in ListRecord
    BY DEF TablesOK, IsTable, Range
  <1>2. DOMAIN T.checklists[l] = {"name", "mission", "mode", "sync", "status",
                                  "pending", "late", "complete"}
    BY <1>1 DEF ListRecord
  <1>3. DOMAIN good \subseteq {"name", "mission", "mode", "sync", "status"}
    BY DEF Restrict, Accepted, Fields
  <1>4. /\ list.pending = T.checklists[l].pending
        /\ list.complete = T.checklists[l].complete
        /\ list.late = T.checklists[l].late
    BY <1>2, <1>3 DEF Written
  <1>5. Patched(T, l, patch) = [T EXCEPT !.checklists[l] = list]
    BY DEF Patched
  <1> HIDE DEF list
  <1>6. QED  BY <1>4, <1>5, ListWrittenAgrees

\* A mission change does not touch the tables of the checklists.
LEMMA AnnounceKeeps ==
  ASSUME NEW T, TablesOK(T), NEW n, NEW kind, NEW l, NEW t
  PROVE  \A x \in ListTables : Announce(T, n, kind, l, t)[x] = T[x]
  BY DEF Announce, TablesOK, Tables, ListTables

-----------------------------------------------------------------------------
(* Every command keeps tables that agree in agreement.                     *)

\* What a worker's command may make of the tables it was applied to.
Keeps(w, U) ==
  /\ Agree(U) /\ DOMAIN U.columns \subseteq DOMAIN core[w].columns \cup {number[w]}
  /\ Registry(command[w]) => \A x \in ListTables : U[x] = core[w][x]

LEMMA AnswerIsCore ==
  ASSUME TypeOK, NEW w \in Workers, NEW U, NEW accepted, Answer(w, accepted, U)
  PROVE  core'[w] = U
  BY DEF TypeOK, Answer

LEMMA CreateNewAgrees ==
  ASSUME NEW w \in Workers, TypeOK, command[w] \in Requests, number[w] \in Numbers,
         number[w] \notin DOMAIN core[w].columns, Agree(core[w]), CreateNew(w)
  PROVE  Keeps(w, core'[w])
  <1> DEFINE c == command[w]
             n == number[w]
             T == core[w]
             list == [name |-> "given", mission |-> c.mission, mode |-> c.mode,
                      sync |-> IF c.mode = "ONLINE" THEN "SYNCED" ELSE "LOCAL_ONLY",
                      status |-> "PENDING", pending |-> 0, late |-> 0, complete |-> 0]
             checklists == Put(T.checklists, c.list, list)
             columns    == Put(T.columns, n, c.list)
             listed     == [T EXCEPT !.checklists = checklists, !.columns = columns]
             added      == Addable(listed, c.list, c.rows)
             result     == RowsAdded(listed, c.list, added, TRUE, n, 0)
  <1>1. TablesOK(T)
    BY DEF TypeOK
  <1>2. /\ c.list \in Lists /\ c.mode \in Modes /\ c.mission \in Missions \ {"unknown"}
        /\ c.rows \in Seq(Rows) /\ c.list \notin DOMAIN T.checklists /\ ~Registry(c)
    BY RequestForms DEF CreateNew, Loaded, Registry
  <1>3. list \in ListRecord
    BY <1>2 DEF ListRecord, Missions, Syncs, Statuses
  <1>4. \/ core'[w] = result
        \/ core'[w] = Announce(result, n, "created", c.list, None)
    <2>1. /\ Answer(w, FALSE, result) \/ Answer(w, TRUE, result)
             \/ Answer(w, TRUE, Announce(result, n, "created", c.list, None))
      BY DEF CreateNew, Accept, Reject
    <2> HIDE DEF result
    <2>2. QED  BY <2>1, AnswerIsCore
  <1> HIDE DEF list
  <1>5. IsTable(checklists, Lists, ListRecord) /\ IsTable(columns, Numbers, Lists)
    BY <1>1, <1>2, <1>3, PutTable DEF TablesOK
  <1>6. /\ DOMAIN checklists = DOMAIN T.checklists \cup {c.list}
        /\ \A k \in DOMAIN T.checklists : checklists[k] = T.checklists[k]
    BY <1>2 DEF Put, Written
  <1>7. /\ DOMAIN columns = DOMAIN T.columns \cup {n} /\ columns[n] = c.list
        /\ \A k \in DOMAIN T.columns : columns[k] = T.columns[k]
    BY DEF Put, Written
  <1> HIDE DEF checklists, columns
  <1>8. /\ listed.checklists = checklists /\ listed.columns = columns
        /\ \A x \in Tables \ {"checklists", "columns"} : listed[x] = T[x]
        /\ listed = [x \in Tables |-> listed[x]]
    BY <1>1 DEF TablesOK, Tables
  <1>9. TablesOK(listed)
    BY <1>1, <1>5, <1>8 DEF TablesOK, Tables
  <1>10. /\ listed.tasks = T.tasks /\ listed.cells = T.cells
         /\ listed.publications = T.publications
    BY <1>8 DEF Tables
  <1> HIDE DEF listed
  <1>11. added \in SUBSET Rows
    BY <1>2 DEF Addable
  <1>12. \A t \in added : t \in DOMAIN listed.tasks => listed.tasks[t].list = c.list
    <2>1. \A j \in DOMAIN c.rows : j \in 1..j
      BY <1>2
    <2>2. \A t \in added : ~InUse(listed, c.list, t)
      BY <2>1 DEF Addable
    <2>3. QED  BY <2>2 DEF InUse
  <1> HIDE DEF added
  <1>13. Placed(T) /\ \A k \in DOMAIN T.checklists : Counted(T, k)
    BY DEF Agree
  <1>14. \A k : k # c.list => ColumnsOf(listed, k) = ColumnsOf(T, k)
    BY <1>7, <1>8 DEF ColumnsOf
  <1>15. Placed(listed)
    <2>1. \A t \in DOMAIN T.tasks : T.tasks[t].list \in DOMAIN T.checklists
                                    /\ T.tasks[t].list # c.list
      BY <1>2, <1>13 DEF Placed
    <2>2. \A t, column : CellsAt(listed, t, column) = CellsAt(T, t, column)
      BY <1>10 DEF CellsAt
    <2>3. \A t \in DOMAIN T.tasks :
            ColumnsOf(listed, T.tasks[t].list) = ColumnsOf(T, T.tasks[t].list)
      BY <1>14, <2>1
    <2>4. \A t \in DOMAIN listed.tasks : \A column \in ColumnsOf(listed, listed.tasks[t].list) :
            \E k \in DOMAIN listed.cells : CellsAt(listed, t, column) = {k}
      BY <1>10, <1>13, <2>2, <2>3 DEF Placed
    <2>5. \A k \in DOMAIN listed.cells :
            /\ k[2] \in DOMAIN listed.tasks
            /\ k[3] \in ColumnsOf(listed, listed.tasks[k[2]].list)
      BY <1>10, <1>13, <2>3 DEF Placed
    <2>6. \A k \in DOMAIN listed.columns : listed.columns[k] \in DOMAIN listed.checklists
      BY <1>6, <1>7, <1>8, <1>13 DEF Placed
    <2>7. \A k \in DOMAIN listed.publications :
            listed.publications[k] \in DOMAIN listed.checklists
      BY <1>6, <1>8, <1>10, <1>13 DEF Placed
    <2>8. \A t \in DOMAIN listed.tasks : listed.tasks[t].list \in DOMAIN listed.checklists
      BY <1>6, <1>8, <1>10, <2>1
    <2>9. QED  BY <2>4, <2>5, <2>6, <2>7, <2>8 DEF Placed
  <1>16. ASSUME NEW k \in DOMAIN listed.checklists, k # c.list  PROVE  Counted(listed, k)
    <2>1. k \in DOMAIN T.checklists /\ listed.checklists[k] = T.checklists[k]
      BY <1>6, <1>8, <1>16
    <2>2. Counted(T, k) /\ TasksOf(listed, k) = TasksOf(T, k)
      BY <1>10, <1>13, <2>1 DEF TasksOf
    <2>3. QED  BY <1>10, <2>1, <2>2, SameCounts
  <1>17. AgreeBut(listed, c.list)
    BY <1>6, <1>8, <1>15, <1>16 DEF AgreeBut
  <1>18. Agree(result) /\ result.columns = columns
    <2>1. 0 \in 0..MaxCommands /\ TRUE \in BOOLEAN
      BY BoundsAssumption
    <2>2. Agree(result) /\ result.columns = listed.columns
      <3>1. ASSUME NEW due \in BOOLEAN
            PROVE  /\ Agree(RowsAdded(listed, c.list, added, due, n, 0))
                   /\ RowsAdded(listed, c.list, added, due, n, 0).columns = listed.columns
        BY <1>9, <1>11, <1>12, <1>17, <2>1, RowsAddedAgrees
      <3>2. QED  BY <2>1, <3>1, Zenon
    <2> HIDE DEF result
    <2>3. QED  BY <1>8, <2>2
  <1>19. TablesOK(result)
    <2>1. 0 \in 0..MaxCommands /\ TRUE \in BOOLEAN /\ c.list \in DOMAIN listed.checklists
      BY BoundsAssumption, <1>6, <1>8
    <2>2. AddsRows(listed, result, added, 0)
      BY <1>9, <1>11, <2>1, RowsAddedType, Zenon
    <2>3. QED  BY <2>2 DEF AddsRows
  <1> HIDE DEF result
  <1>20. \A x \in ListTables : core'[w][x] = result[x]
    BY <1>4, <1>19, AnnounceKeeps
  <1>21. core'[w].columns = columns /\ Agree(core'[w])
    BY <1>18, <1>20, SameTablesAgree DEF ListTables
  <1>22. QED  BY <1>2, <1>7, <1>21 DEF Keeps

\* Tables that agree, alone or with a mission change added to them.
LEMMA QuietAgrees ==
  ASSUME NEW w \in Workers, TypeOK, ~Registry(command[w]), NEW U, TablesOK(U), Agree(U),
         DOMAIN U.columns \subseteq DOMAIN core[w].columns,
         \/ core'[w] = U
         \/ \E n, kind, l, t : core'[w] = Announce(U, n, kind, l, t)
  PROVE  Keeps(w, core'[w])
  <1>1. \A x \in ListTables : core'[w][x] = U[x]
    BY AnnounceKeeps
  <1>2. Agree(core'[w]) /\ core'[w].columns = U.columns
    BY <1>1, SameTablesAgree DEF ListTables
  <1>3. QED  BY <1>2 DEF Keeps

LEMMA RowAddAgrees ==
  ASSUME NEW w \in Workers, TypeOK, command[w] \in Requests, number[w] \in Numbers,
         Agree(core[w]), RowAdd(w)
  PROVE  Keeps(w, core'[w])
  <1> DEFINE c == command[w]
             n == number[w]
             T == core[w]
             result == RowsAdded(T, c.list, {c.row}, c.due, n, n)
  <1>1. TablesOK(T) /\ n \in 0..MaxCommands
    BY DEF TypeOK
  <1>2. c.list \in Lists /\ c.row \in Rows /\ c.due \in BOOLEAN /\ ~Registry(c)
    BY RequestForms DEF RowAdd, Loaded, Registry
  <1>3. CASE c.list \notin DOMAIN T.checklists \/ InUse(T, c.list, c.row)
    <2>1. Answer(w, FALSE, T)
      BY <1>3 DEF RowAdd, Reject
    <2>2. core'[w] = T
      BY <2>1, AnswerIsCore
    <2>3. QED  BY <1>2, <2>2 DEF Keeps
  <1>4. CASE ~(c.list \notin DOMAIN T.checklists \/ InUse(T, c.list, c.row))
    <2>1. AgreeBut(T, c.list)
      BY <1>4, AgreeIsAgreeBut
    <2>2. {c.row} \in SUBSET Rows /\ c.list \in DOMAIN T.checklists
      BY <1>2, <1>4
    <2>3. \A t \in {c.row} : t \in DOMAIN T.tasks => T.tasks[t].list = c.list
      BY <1>4 DEF InUse
    <2>4. Agree(result) /\ result.columns = T.columns
      BY <1>1, <1>2, <2>1, <2>2, <2>3, RowsAddedAgrees
    <2>5. TablesOK(result)
      <3>1. AddsRows(T, result, {c.row}, n)
        BY <1>1, <1>2, <2>2, RowsAddedType, Zenon
      <3>2. QED  BY <3>1 DEF AddsRows
    <2>6. /\ c.row \in DOMAIN T.tasks => Accept(w, result)
          /\ c.row \notin DOMAIN T.tasks =>
               Accept(w, Announce(result, n, "row added", c.list, c.row))
      BY <1>4 DEF RowAdd
    <2> HIDE DEF result
    <2>7. core'[w] = result \/ core'[w] = Announce(result, n, "row added", c.list, c.row)
      BY <2>6, AnswerIsCore DEF Accept
    <2>8. QED  BY <1>2, <2>4, <2>5, <2>7, QuietAgrees
  <1>5. QED  BY <1>3, <1>4

LEMMA CellSetAgrees ==
  ASSUME NEW w \in Workers, TypeOK, command[w] \in Requests, number[w] \in Numbers,
         Agree(core[w]), CellSet(w)
  PROVE  Keeps(w, core'[w])
  <1> DEFINE c == command[w]
             n == number[w]
             T == core[w]
  <1>1. TablesOK(T)
    BY DEF TypeOK
  <1>2. /\ HasTask(T, c.list, c.row) /\ ~Registry(c)
    BY DEF CellSet, Loaded, Registry
  <1>3. c.list \in DOMAIN T.checklists /\ c.row \in DOMAIN T.tasks /\ T.tasks[c.row].list = c.list
    BY <1>2 DEF HasTask, TasksOf
  \* A task that agrees has a cell in every column: none is made.
  <1>4. PICK k \in DOMAIN T.cells :
          Accept(w, Announce(Recomputed([T EXCEPT !.cells = Put(@, k, "filled")], c.list),
                             n, "cell set", c.list, c.row))
    <2>1. PICK column \in ColumnsOf(T, c.list) :
            LET old == {k \in DOMAIN T.cells : k[2] = c.row /\ k[3] = column} IN
            \E k \in IF old = {} THEN {<<n, c.row, column>>} ELSE old :
              Accept(w, Announce(Recomputed([T EXCEPT !.cells = Put(@, k, "filled")], c.list),
                                 n, "cell set", c.list, c.row))
      BY DEF CellSet
    <2>2. PICK k \in DOMAIN T.cells : CellsAt(T, c.row, column) = {k}
      BY <1>3 DEF Agree, Placed
    <2>3. QED  BY <2>1, <2>2 DEF CellsAt
  <1> DEFINE cells == Put(T.cells, k, "filled")
             V == [T EXCEPT !.cells = cells]
             U == Recomputed(V, c.list)
  <1>5. DOMAIN cells = DOMAIN T.cells
    BY DEF Put, Written
  <1>6. IsTable(cells, Numbers \X Rows \X Numbers, {None, "filled"})
    <2>1. k \in Numbers \X Rows \X Numbers
      BY <1>1 DEF TablesOK, IsTable
    <2>2. IsTable(T.cells, Numbers \X Rows \X Numbers, {None, "filled"})
      BY <1>1 DEF TablesOK
    <2>3. QED  BY <2>1, <2>2, PutTable
  <1>7. core'[w] = Announce(U, n, "cell set", c.list, c.row)
    BY <1>4, AnswerIsCore DEF Accept
  <1> HIDE DEF cells
  <1>8. /\ V.cells = cells /\ \A x \in Tables \ {"cells"} : V[x] = T[x]
        /\ V = [x \in Tables |-> V[x]]
    BY <1>1 DEF TablesOK, Tables
  <1>9. /\ V.checklists = T.checklists /\ V.columns = T.columns /\ V.tasks = T.tasks
        /\ V.publications = T.publications
    BY <1>8 DEF Tables
  <1>10. TablesOK(V)
    BY <1>1, <1>6, <1>8 DEF TablesOK, Tables
  <1> HIDE DEF V
  <1>11. Agree(V)
    <2>1. Placed(V)
      BY <1>5, <1>8, <1>9 DEF Agree, Placed, ColumnsOf, CellsAt
    <2>2. ASSUME NEW l \in DOMAIN V.checklists  PROVE  Counted(V, l)
      <3>1. Counted(T, l) /\ TasksOf(V, l) = TasksOf(T, l)
        BY <1>9 DEF Agree, TasksOf
      <3>2. QED  BY <1>9, <3>1, SameCounts
    <2>3. QED  BY <2>1, <2>2 DEF Agree
  <1>12. Agree(U) /\ U.columns = T.columns
    BY <1>3, <1>9, <1>10, <1>11, AgreeIsAgreeBut, RecomputedAgrees
  <1>13. TablesOK(U)
    BY <1>3, <1>9, <1>10, RecomputedType
  <1> HIDE DEF U
  <1>14. QED  BY <1>2, <1>7, <1>12, <1>13, QuietAgrees

LEMMA StatusSetAgrees ==
  ASSUME NEW w \in Workers, TypeOK, command[w] \in Requests, number[w] \in Numbers,
         Agree(core[w]), StatusSet(w)
  PROVE  Keeps(w, core'[w])
  <1> DEFINE c == command[w]
             n == number[w]
             T == core[w]
             completed == CASE c.user # "COMPLETE" -> "no"
                            [] c.user = "COMPLETE" /\ T.tasks[c.row].completed # "no"
                                 -> T.tasks[c.row].completed
                            [] OTHER -> IF passed THEN "late" ELSE "early"
             task  == [T.tasks[c.row] EXCEPT !.user = c.user, !.completed = completed]
             tasks == [T.tasks EXCEPT ![c.row] = task]
             V == [T EXCEPT !.tasks = tasks]
             U == Recomputed(V, c.list)
  <1>1. TablesOK(T)
    BY DEF TypeOK
  <1>2. /\ HasTask(T, c.list, c.row) /\ ~Registry(c) /\ c.user \in {"PENDING", "COMPLETE"}
    BY RequestForms DEF StatusSet, Loaded, Registry
  <1>3. c.list \in DOMAIN T.checklists /\ c.row \in DOMAIN T.tasks /\ T.tasks[c.row].list = c.list
    BY <1>2 DEF HasTask, TasksOf
  <1>4. \A t \in DOMAIN T.tasks : T.tasks[t] \in TaskRecord
    BY <1>1 DEF TablesOK, IsTable, Range
  <1>5. completed \in {"no", "early", "late"}
    BY <1>3, <1>4 DEF TaskRecord
  <1>6. core'[w] = Announce(U, n, "status set", c.list, c.row)
    <2>1. [T EXCEPT !.tasks[c.row] = [@ EXCEPT !.user = c.user, !.completed = completed]] = V
      BY <1>1 DEF TablesOK, Tables
    <2>2. Answer(w, TRUE, Announce(U, n, "status set", c.list, c.row))
      BY <2>1 DEF StatusSet, Accept
    <2> HIDE DEF U
    <2>3. QED  BY <2>2, AnswerIsCore
  <1> HIDE DEF completed
  <1>7. task \in TaskRecord /\ task.list = c.list
    BY <1>2, <1>3, <1>4, <1>5 DEF TaskRecord
  <1> HIDE DEF task
  <1>8. /\ DOMAIN tasks = DOMAIN T.tasks
        /\ \A t \in DOMAIN T.tasks \ {c.row} : tasks[t] = T.tasks[t]
        /\ tasks[c.row] = task
    BY <1>3
  <1>9. IsTable(tasks, Rows, TaskRecord)
    BY <1>1, <1>3, <1>7, ChangedRow DEF TablesOK
  <1> HIDE DEF tasks
  <1>10. /\ V.tasks = tasks /\ \A x \in Tables \ {"tasks"} : V[x] = T[x]
         /\ V = [x \in Tables |-> V[x]]
    BY <1>1 DEF TablesOK, Tables
  <1>11. /\ V.checklists = T.checklists /\ V.columns = T.columns /\ V.cells = T.cells
         /\ V.publications = T.publications
    BY <1>10 DEF Tables
  <1>12. TablesOK(V)
    BY <1>1, <1>9, <1>10 DEF TablesOK, Tables
  <1> HIDE DEF V
  <1>13. \A t \in DOMAIN T.tasks : V.tasks[t].list = T.tasks[t].list
    BY <1>3, <1>7, <1>8, <1>10
  <1>14. AgreeBut(V, c.list)
    <2>1. Placed(T)
      BY DEF Agree
    <2>2. Placed(V)
      <3>1. /\ \A k : ColumnsOf(V, k) = ColumnsOf(T, k)
            /\ \A t, column : CellsAt(V, t, column) = CellsAt(T, t, column)
        BY <1>11 DEF ColumnsOf, CellsAt
      <3>2. DOMAIN V.tasks = DOMAIN T.tasks
        BY <1>8, <1>10
      <3>3. QED  BY <1>11, <1>13, <2>1, <3>1, <3>2 DEF Placed
    <2>3. ASSUME NEW l \in DOMAIN V.checklists, l # c.list  PROVE  Counted(V, l)
      <3>1. Counted(T, l)
        BY <1>11 DEF Agree
      <3>2. TasksOf(V, l) = TasksOf(T, l)
        BY <1>8, <1>10, <1>13 DEF TasksOf
      <3>3. \A t \in TasksOf(T, l) : V.tasks[t] = T.tasks[t]
        BY <1>3, <1>8, <1>10, <2>3 DEF TasksOf
      <3>4. QED  BY <1>11, <3>1, <3>2, <3>3, SameCounts
    <2>4. QED  BY <1>3, <1>11, <2>2, <2>3 DEF AgreeBut
  <1>15. Agree(U) /\ U.columns = T.columns
    BY <1>11, <1>12, <1>14, RecomputedAgrees
  <1>16. TablesOK(U)
    BY <1>3, <1>11, <1>12, RecomputedType
  <1> HIDE DEF U
  <1>17. QED  BY <1>2, <1>6, <1>15, <1>16, QuietAgrees

LEMMA ApplyAgrees ==
  ASSUME NEW w \in Workers, TypeOK, command[w] \in Requests, number[w] \in Numbers,
         number[w] \notin DOMAIN core[w].columns, Agree(core[w]), Apply(w)
  PROVE  Keeps(w, core'[w])
  <1> DEFINE c == command[w]
             n == number[w]
             T == core[w]
  <1>1. TablesOK(T)
    BY DEF TypeOK
  <1>2. ASSUME core'[w] = T  PROVE  Keeps(w, core'[w])
    BY <1>2 DEF Keeps
  <1>3. ASSUME Reject(w, T)  PROVE  Keeps(w, core'[w])
    BY <1>2, <1>3, AnswerIsCore DEF Reject
  <1>4. ASSUME ~Registry(c), NEW U, TablesOK(U), Agree(U),
               DOMAIN U.columns \subseteq DOMAIN T.columns,
               \/ Accept(w, U) \/ Reject(w, U)
               \/ \E kind, l, t : Accept(w, Announce(U, n, kind, l, t))
        PROVE  Keeps(w, core'[w])
    <2>1. core'[w] = U \/ \E kind, l, t : core'[w] = Announce(U, n, kind, l, t)
      BY <1>4, AnswerIsCore DEF Accept, Reject
    <2>2. QED  BY <1>4, <2>1, QuietAgrees
  <1>5. ASSUME HasTask(T, c.list, c.row)
        PROVE  /\ AgreeBut(T, c.list) /\ c.list \in DOMAIN T.checklists
               /\ c.row \in TasksOf(T, c.list)
    BY <1>5, AgreeIsAgreeBut DEF HasTask
  <1>6. CASE CreateNew(w)
    BY <1>6, CreateNewAgrees
  <1>7. CASE RowAdd(w)
    BY <1>7, RowAddAgrees
  <1>8. CASE CellSet(w)
    BY <1>8, CellSetAgrees
  <1>9. CASE StatusSet(w)
    BY <1>9, StatusSetAgrees
  <1>10. CASE CreateExisting(w)
    <2>1. ~Registry(c)
      BY <1>10 DEF CreateExisting, Loaded, Registry
    <2>2. Accept(w, T) \/ Accept(w, Announce(T, n, "created", c.list, None))
      BY <1>10 DEF CreateExisting
    <2>3. QED  BY <1>1, <1>4, <2>1, <2>2
  <1>11. CASE CreateRejected(w) \/ RowMissing(w) \/ ListMissing(w) \/ CellRejected(w)
    BY <1>3, <1>11 DEF CreateRejected, RowMissing, ListMissing, CellRejected
  <1>12. CASE RowDelete(w)
    <2> DEFINE U == RowRemoved(T, c.list, c.row)
    <2>1. /\ Accept(w, Announce(U, n, "row deleted", c.list, c.row))
          /\ HasTask(T, c.list, c.row) /\ ~Registry(c)
      BY <1>12 DEF RowDelete, Loaded, Registry
    <2>2. Agree(U) /\ U.columns = T.columns
      BY <1>1, <1>5, <2>1, RowRemovedAgrees
    <2>3. TablesOK(U)
      BY <1>1, <1>5, <2>1, RowRemovedType
    <2> HIDE DEF U
    <2>4. QED  BY <1>4, <2>1, <2>2, <2>3
  <1>13. CASE RowStyleSet(w)
    <2> DEFINE U == Recomputed(T, c.list)
    <2>1. /\ Accept(w, Announce(U, n, "style set", c.list, c.row))
          /\ HasTask(T, c.list, c.row) /\ ~Registry(c)
      BY <1>13 DEF RowStyleSet, Loaded, Registry
    <2>2. Agree(U) /\ U.columns = T.columns
      BY <1>1, <1>5, <2>1, RecomputedAgrees
    <2>3. TablesOK(U)
      BY <1>1, <1>5, <2>1, RecomputedType
    <2> HIDE DEF U
    <2>4. QED  BY <1>4, <2>1, <2>2, <2>3
  <1>14. CASE Update(w)
    <2> DEFINE U == Patched(T, c.list, c.patch)
    <2>1. c.list \in DOMAIN T.checklists /\ c.patch \in Patches /\ ~Registry(c)
      BY <1>14, RequestForms DEF Update, Loaded, Registry
    <2>2. TablesOK(U) /\ Agree(U) /\ U.columns = T.columns
      BY <1>1, <2>1, PatchedType, PatchedAgrees
    <2>3. Reject(w, U) \/ Accept(w, U) \/ Accept(w, Announce(U, n, "created", c.list, None))
      BY <1>14 DEF Update
    <2> HIDE DEF U
    <2>4. QED  BY <1>4, <2>1, <2>2, <2>3
  <1>15. CASE Delete(w)
    <2> DEFINE U == ListRemoved(T, c.list)
    <2>1. Accept(w, U) /\ ~Registry(c)
      BY <1>15 DEF Delete, Loaded, Registry
    <2>2. TablesOK(U) /\ Agree(U) /\ DOMAIN U.columns \subseteq DOMAIN T.columns
      BY <1>1, ListRemovedType, ListRemovedAgrees
    <2> HIDE DEF U
    <2>3. QED  BY <1>4, <2>1, <2>2
  <1>16. CASE Upload(w)
    <2> DEFINE list == [T.checklists[c.list] EXCEPT !.sync = "SYNCED"]
               U    == [T EXCEPT !.checklists[c.list] = list]
    <2>1. c.list \in DOMAIN T.checklists /\ ~Registry(c)
      BY <1>16 DEF Upload, Loaded, Registry
    <2>2. Accept(w, Announce(U, n, "uploaded", c.list, None))
      BY <1>16 DEF Upload
    <2>3. T.checklists[c.list] \in ListRecord
      BY <1>1, <2>1 DEF TablesOK, IsTable, Range
    <2>4. /\ list.pending = T.checklists[c.list].pending
          /\ list.complete = T.checklists[c.list].complete
          /\ list.late = T.checklists[c.list].late /\ list \in ListRecord
      BY <2>3 DEF ListRecord, Syncs
    <2> HIDE DEF list
    <2>5. Agree(U) /\ U.columns = T.columns
      BY <1>1, <2>1, <2>4, ListWrittenAgrees
    <2>6. TablesOK(U)
      <3> DEFINE lists == [T.checklists EXCEPT ![c.list] = list]
      <3>1. IsTable(lists, Lists, ListRecord)
        BY <1>1, <2>1, <2>4, ChangedRow DEF TablesOK
      <3> HIDE DEF lists
      <3>2. /\ U.checklists = lists /\ \A x \in Tables \ {"checklists"} : U[x] = T[x]
            /\ U = [x \in Tables |-> U[x]]
        BY <1>1 DEF TablesOK, Tables, lists
      <3> HIDE DEF U
      <3>3. QED  BY <1>1, <3>1, <3>2 DEF TablesOK, Tables
    <2> HIDE DEF U
    <2>7. QED  BY <1>4, <2>1, <2>2, <2>5, <2>6
  <1>17. CASE Publish(w)
    <2> DEFINE published == Put(T.publications, n, c.list)
               U == [T EXCEPT !.publications = published]
    <2>1. c.list \in DOMAIN T.checklists /\ ~Registry(c) /\ (Reject(w, T) \/ Accept(w, U))
      BY <1>17 DEF Publish, Loaded, Registry
    <2>2. IsTable(published, Numbers, Lists)
      <3>1. c.list \in Lists /\ IsTable(T.publications, Numbers, Lists)
        BY <1>1, <2>1 DEF TablesOK, IsTable
      <3>2. QED  BY <3>1, PutTable
    <2>3. /\ DOMAIN published = DOMAIN T.publications \cup {n} /\ published[n] = c.list
          /\ \A k \in DOMAIN T.publications \ {n} : published[k] = T.publications[k]
      BY DEF Put, Written
    <2> HIDE DEF published
    <2>4. /\ U.publications = published /\ \A x \in Tables \ {"publications"} : U[x] = T[x]
          /\ U = [x \in Tables |-> U[x]]
      BY <1>1 DEF TablesOK, Tables
    <2>5. TablesOK(U)
      BY <1>1, <2>2, <2>4 DEF TablesOK, Tables
    <2>6. /\ U.checklists = T.checklists /\ U.columns = T.columns /\ U.tasks = T.tasks
          /\ U.cells = T.cells
      BY <2>4 DEF Tables
    <2> HIDE DEF U
    <2>7. Placed(U)
      <3>1. \A k \in DOMAIN U.publications : U.publications[k] \in DOMAIN U.checklists
        BY <2>1, <2>3, <2>4, <2>6 DEF Agree, Placed
      <3>2. QED  BY <2>6, <3>1 DEF Agree, Placed, ColumnsOf, CellsAt
    <2>8. ASSUME NEW l \in DOMAIN U.checklists  PROVE  Counted(U, l)
      <3>1. Counted(T, l) /\ TasksOf(U, l) = TasksOf(T, l)
        BY <2>6 DEF Agree, TasksOf
      <3>2. QED  BY <2>6, <3>1, SameCounts
    <2>9. Agree(U)
      BY <2>7, <2>8 DEF Agree
    <2>10. QED  BY <1>3, <1>4, <2>1, <2>5, <2>6, <2>9
  <1>18. CASE Join(w)
    BY <1>2, <1>18, AnswerIsCore DEF Join, Accept
  <1>19. CASE Assign(w)
    <2> DEFINE assignments == Put(T.assignments, n, [row |-> c.row, list |-> T.tasks[c.row].list])
               U == [T EXCEPT !.assignments = assignments]
    <2>1. CASE Reject(w, T)
      BY <1>3, <2>1
    <2>2. CASE c.row \in DOMAIN T.tasks
               /\ Accept(w, Announce(U, n, "assigned", T.tasks[c.row].list, c.row))
      <3>1. T.tasks[c.row] \in TaskRecord /\ c.row \in Rows
        BY <1>1, <2>2 DEF TablesOK, IsTable, Range
      <3>2. T.tasks[c.row].list \in Lists
        BY <3>1 DEF TaskRecord
      <3>3. IsTable(assignments, Numbers, [row : Rows, list : Lists])
        BY <1>1, <3>1, <3>2, PutTable DEF TablesOK
      <3> HIDE DEF assignments
      <3>4. /\ U.assignments = assignments /\ \A x \in Tables \ {"assignments"} : U[x] = T[x]
            /\ U = [x \in Tables |-> U[x]]
        BY <1>1 DEF TablesOK, Tables
      <3>5. TablesOK(U)
        BY <1>1, <3>3, <3>4 DEF TablesOK, Tables
      <3>6. \A x \in ListTables : U[x] = T[x]
        BY <3>4 DEF ListTables, Tables
      <3>7. core'[w] = Announce(U, n, "assigned", T.tasks[c.row].list, c.row)
        BY <2>2, AnswerIsCore DEF Accept
      <3> HIDE DEF U
      <3>8. \A x \in ListTables : core'[w][x] = T[x]
        BY <3>5, <3>6, <3>7, AnnounceKeeps
      <3>9. QED  BY <3>8, SameTablesAgree DEF Keeps, ListTables
    <2>3. QED  BY <1>19, <2>1, <2>2 DEF Assign
  <1>20. QED
    BY <1>6, <1>7, <1>8, <1>9, <1>10, <1>11, <1>12, <1>13, <1>14, <1>15, <1>16, <1>17,
       <1>18, <1>19 DEF Apply

-----------------------------------------------------------------------------
(* A worker whom nobody has overtaken works on what is stored, so what it  *)
(* saves is what it computed.                                              *)

UpToDate(w) ==
  /\ phase[w] = "reading" =>
       \A i \in 1..read[w] :
         before[w][Statements(command[w])[i]] = store[Statements(command[w])[i]]
  /\ phase[w] \in {"loaded", "applied"} => before[w] = store
  /\ phase[w] = "applied" =>
       /\ Agree(core[w])
       /\ DOMAIN core[w].columns \subseteq DOMAIN store.columns \cup {number[w]}
       /\ Registry(command[w]) => \A x \in ListTables : core[w][x] = store[x]

AgreeInv ==
  /\ \A w \in Workers : phase[w] \in {"loaded", "applied"} => read[w] > 0
  /\ ~overlapped =>
       /\ Agree(store)
       /\ DOMAIN store.columns \subseteq 1..commands
       /\ \A w \in Workers :
            /\ phase[w] # "idle" => number[w] \notin DOMAIN store.columns
            /\ ~behind[w] => UpToDate(w)

LEMMA InitAgrees == Init => AgreeInv
  <1> SUFFICES ASSUME Init  PROVE  AgreeInv
    OBVIOUS
  <1>1. /\ DOMAIN store.checklists = {} /\ DOMAIN store.columns = {} /\ DOMAIN store.tasks = {}
        /\ DOMAIN store.cells = {} /\ DOMAIN store.publications = {}
    BY DEF Init, Empty, Tables
  <1>2. Agree(store)
    BY <1>1 DEF Agree, Placed
  <1>3. \A w \in Workers : phase[w] = "idle"
    BY DEF Init
  <1>4. QED  BY <1>1, <1>2, <1>3 DEF AgreeInv, UpToDate

\* A worker that is left alone stays up to date as long as the store does not change.
LEMMA StaysUpToDate ==
  ASSUME NEW w, UpToDate(w), store' = store, phase'[w] = phase[w], read'[w] = read[w],
         command'[w] = command[w], before'[w] = before[w], core'[w] = core[w],
         number'[w] = number[w]
  PROVE  UpToDate(w)'
  BY DEF UpToDate

LEMMA BeginAgrees ==
  ASSUME IInv, AgreeInv, NEW w \in Workers, NEW c \in Requests, Begin(w, c)
  PROVE  AgreeInv'
  <1>1. /\ UNCHANGED <<store, read, before, core, behind, overlapped>>
        /\ phase[w] = "idle" /\ commands' = commands + 1 /\ commands \in Nat
    BY DEF Begin, IInv, TypeOK
  <1>2. /\ phase'[w] = "reading" /\ number'[w] = commands + 1
        /\ \A v \in Workers \ {w} :
             phase'[v] = phase[v] /\ command'[v] = command[v] /\ number'[v] = number[v]
    BY DEF Begin, IInv, TypeOK
  <1>3. read'[w] = 0
    BY <1>1 DEF IInv, NumbersAreNew
  <1>4. UpToDate(w)'
    BY <1>2, <1>3 DEF UpToDate
  <1>5. ASSUME ~overlapped, NEW v \in Workers \ {w}, ~behind[v]  PROVE  UpToDate(v)'
    BY <1>1, <1>2, <1>5, StaysUpToDate DEF AgreeInv
  <1>6. \A v \in Workers : phase'[v] \in {"loaded", "applied"} => read'[v] > 0
    BY <1>1, <1>2 DEF AgreeInv
  <1>7. ASSUME ~overlapped
        PROVE  /\ Agree(store) /\ DOMAIN store.columns \subseteq 1..commands'
               /\ \A v \in Workers : phase'[v] # "idle" => number'[v] \notin DOMAIN store.columns
    BY <1>1, <1>2, <1>7 DEF AgreeInv
  <1>8. Agree(store') <=> Agree(store)
    BY <1>1
  <1>9. QED  BY <1>1, <1>4, <1>5, <1>6, <1>7, <1>8 DEF AgreeInv

\* The statements of a command read every table.
LEMMA EveryTableIsRead ==
  ASSUME NEW c, NEW x \in Tables
  PROVE  \E i \in 1..7 : Statements(c)[i] = x
  BY DEF Statements, Tables

LEMMA ReadAgrees ==
  ASSUME IInv, AgreeInv, NEW w \in Workers, Read(w)
  PROVE  AgreeInv'
  <1> DEFINE S == Statements(command[w])
             table == S[read[w] + 1]
             T == [before[w] EXCEPT ![table] = store[table]]
  <1>1. TypeOK /\ phase[w] = "reading" /\ read[w] \in 0..6
    BY DEF Read, IInv, TypeOK, NumbersAreNew
  <1>2. Len(S) = 7 /\ \A i \in 1..7 : S[i] \in Tables
    BY StatementsType
  <1>3. table \in Tables
    BY <1>1, <1>2
  <1>4. /\ T = [x \in Tables |-> T[x]] /\ T[table] = store[table]
        /\ \A x \in Tables \ {table} : T[x] = before[w][x]
    <2> HIDE DEF table
    <2>1. QED  BY <1>1, <1>3 DEF TypeOK, TablesOK
  <1>5. before' = [before EXCEPT ![w] = T]
    BY DEF Read
  <1>6. UNCHANGED <<store, commands, command, number, behind, overlapped>>
    BY DEF Read
  <1>7. read'[w] = read[w] + 1 /\ \A v \in Workers \ {w} : read'[v] = read[v]
    BY <1>1 DEF Read, TypeOK
  <1>8. IF read'[w] = 7 THEN /\ phase' = [phase EXCEPT ![w] = "loaded"]
                            /\ core' = [core EXCEPT ![w] = before'[w]]
        ELSE phase' = phase /\ core' = core
    BY <1>2 DEF Read
  <1> HIDE DEF T
  <1>9. before'[w] = T /\ \A v \in Workers \ {w} : before'[v] = before[v]
    BY <1>1, <1>5 DEF TypeOK
  <1>10. /\ \A v \in Workers \ {w} : phase'[v] = phase[v] /\ core'[v] = core[v]
         /\ \/ phase'[w] = "reading" /\ read'[w] < 7
            \/ phase'[w] = "loaded" /\ read'[w] = 7
    BY <1>1, <1>7, <1>8 DEF TypeOK
  <1>11. ASSUME ~overlapped, ~behind[w]  PROVE  UpToDate(w)'
    <2>1. \A i \in 1..read[w] : before[w][S[i]] = store[S[i]]
      BY <1>1, <1>11 DEF AgreeInv, UpToDate
    <2>2. ASSUME NEW i \in 1..(read[w] + 1)  PROVE  T[S[i]] = store[S[i]]
      <3>1. CASE S[i] = table
        BY <1>4, <3>1
      <3>2. CASE S[i] # table
        <4>1. i \in 1..read[w] /\ i \in 1..7
          BY <1>1, <3>2
        <4>2. S[i] \in Tables \ {table}
          BY <1>2, <3>2, <4>1
        <4> HIDE DEF S, table
        <4>3. QED  BY <1>4, <2>1, <4>1, <4>2
      <3>3. QED  BY <3>1, <3>2
    <2>3. ASSUME read'[w] = 7  PROVE  T = store
      <3>1. \A x \in Tables : T[x] = store[x]
        BY <1>1, <1>7, <2>2, <2>3, EveryTableIsRead
      <3>2. store = [x \in Tables |-> store[x]]
        BY <1>1 DEF TypeOK, TablesOK
      <3>3. QED  BY <1>4, <3>1, <3>2
    <2>4. QED  BY <1>6, <1>7, <1>9, <1>10, <2>2, <2>3 DEF UpToDate
  <1>12. ASSUME ~overlapped, NEW v \in Workers \ {w}, ~behind[v]  PROVE  UpToDate(v)'
    BY <1>6, <1>7, <1>9, <1>10, <1>12, StaysUpToDate DEF AgreeInv
  <1>13. \A v \in Workers : phase'[v] \in {"loaded", "applied"} => read'[v] > 0
    BY <1>7, <1>10 DEF AgreeInv
  <1>14. ASSUME ~overlapped
         PROVE  /\ Agree(store) /\ DOMAIN store.columns \subseteq 1..commands
                /\ \A v \in Workers : phase'[v] # "idle" => number[v] \notin DOMAIN store.columns
    BY <1>1, <1>10, <1>14 DEF AgreeInv
  <1>15. Agree(store') <=> Agree(store)
    BY <1>6
  <1>16. QED  BY <1>6, <1>11, <1>12, <1>13, <1>14, <1>15 DEF AgreeInv

LEMMA ApplyKeepsAgreement ==
  ASSUME IInv, AgreeInv, NEW w \in Workers, Apply(w)
  PROVE  AgreeInv'
  <1>1. TypeOK
    BY DEF IInv
  <1>2. phase[w] = "loaded"
    BY DEF Apply, Loaded, CreateNew, CreateExisting, CreateRejected, RowAdd, RowDelete,
       RowStyleSet, CellSet, CellRejected, StatusSet, RowMissing, Update, Delete, Upload,
       Publish, Join, ListMissing, Assign
  <1>3. /\ command[w] \in Requests /\ number[w] \in Numbers /\ core[w] = before[w]
        /\ number[w] \notin DOMAIN core[w].changes
    <2>1. /\ command[w] \in Requests /\ number[w] \in 1..commands
          /\ number[w] \notin DOMAIN store.changes /\ core[w] = before[w]
      BY <1>2 DEF IInv, NumbersAreNew, SnapshotsOfTheLog
    <2>2. \A n \in DOMAIN before[w].changes : n \in DOMAIN store.changes
      BY DEF IInv, SnapshotsOfTheLog
    <2>3. QED  BY <1>1, <2>1, <2>2, BoundsAssumption DEF TypeOK, Numbers
  <1>4. \E accepted \in BOOLEAN : \E tables : Answer(w, accepted, tables)
    BY <1>1, <1>3, ApplyType
  <1>5. /\ UNCHANGED <<store, commands, command, number, read, before, behind, overlapped>>
        /\ phase' = [phase EXCEPT ![w] = "applied"]
        /\ \E tables : core' = [core EXCEPT ![w] = tables]
    BY <1>4 DEF Answer
  <1>6. /\ phase'[w] = "applied"
        /\ \A v \in Workers \ {w} : phase'[v] = phase[v] /\ core'[v] = core[v]
    BY <1>1, <1>5 DEF TypeOK
  <1>7. ASSUME ~overlapped, ~behind[w]  PROVE  UpToDate(w)'
    <2>1. before[w] = store /\ core[w] = store
      BY <1>2, <1>3, <1>7 DEF AgreeInv, UpToDate
    <2>2. Agree(core[w]) /\ number[w] \notin DOMAIN core[w].columns
      BY <1>2, <1>7, <2>1 DEF AgreeInv
    <2>3. Keeps(w, core'[w])
      BY <1>1, <1>3, <2>2, ApplyAgrees
    <2>4. QED  BY <1>5, <1>6, <2>1, <2>3 DEF Keeps, UpToDate
  <1>8. ASSUME ~overlapped, NEW v \in Workers \ {w}, ~behind[v]  PROVE  UpToDate(v)'
    BY <1>5, <1>6, <1>8, StaysUpToDate DEF AgreeInv
  <1>9. \A v \in Workers : phase'[v] \in {"loaded", "applied"} => read'[v] > 0
    BY <1>2, <1>5, <1>6 DEF AgreeInv
  <1>10. ASSUME ~overlapped
         PROVE  /\ Agree(store) /\ DOMAIN store.columns \subseteq 1..commands
                /\ \A v \in Workers : phase'[v] # "idle" => number[v] \notin DOMAIN store.columns
    BY <1>2, <1>6, <1>10 DEF AgreeInv
  <1>11. Agree(store') <=> Agree(store)
    BY <1>5
  <1>12. QED  BY <1>5, <1>7, <1>8, <1>9, <1>10, <1>11 DEF AgreeInv

\* What was computed from a table replaces it.
LEMMA SavedAlone ==
  ASSUME NEW old, NEW new, NEW Keys, NEW Values, IsTable(new, Keys, Values)
  PROVE  SaveDelta(old, old, new) = new
  <1>1. DOMAIN SaveDelta(old, old, new) = DOMAIN new
    BY DEF SaveDelta, Written, Restrict
  <1>2. \A k \in DOMAIN new : SaveDelta(old, old, new)[k] = new[k]
    BY DEF SaveDelta, Written
  <1>3. /\ SaveDelta(old, old, new)
             = [k \in DOMAIN SaveDelta(old, old, new) |-> SaveDelta(old, old, new)[k]]
        /\ new = [k \in DOMAIN new |-> new[k]]
    BY DEF SaveDelta, Written, IsTable
  <1> HIDE DEF SaveDelta
  <1>4. QED  BY <1>1, <1>2, <1>3

\* The tables of the checklists are saved as they were computed.
LEMMA SavesItsCore ==
  ASSUME IInv, AgreeInv, NEW w \in Workers, Save(w), ~overlapped, ~behind[w]
  PROVE  \A x \in ListTables : store'[x] = core[w][x]
  <1>1. /\ phase[w] = "applied" /\ TablesOK(core[w])
        /\ store' = [x \in Tables |-> IF x \in Saved(command[w])
                                      THEN SaveDelta(store[x], before[w][x], core[w][x])
                                      ELSE store[x]]
    BY DEF IInv, TypeOK, Save
  <1>2. /\ before[w] = store
        /\ Registry(command[w]) => \A x \in ListTables : core[w][x] = store[x]
    BY <1>1 DEF AgreeInv, UpToDate
  <1>3. ListTables \subseteq Tables
    BY DEF ListTables, Tables
  <1>4. CASE Registry(command[w])
    <2>1. \A x \in ListTables : x \notin Saved(command[w])
      BY <1>4 DEF Saved, ListTables
    <2>2. QED  BY <1>1, <1>2, <1>3, <1>4, <2>1
  <1>5. CASE ~Registry(command[w])
    <2>1. \A x \in Tables : store'[x] = SaveDelta(store[x], store[x], core[w][x])
      BY <1>1, <1>2, <1>5 DEF Saved
    <2>2. ASSUME NEW x \in ListTables  PROVE  \E Keys, Values : IsTable(core[w][x], Keys, Values)
      BY <1>1 DEF TablesOK, ListTables
    <2>3. QED  BY <1>3, <2>1, <2>2, SavedAlone
  <1>6. QED  BY <1>4, <1>5

LEMMA SaveAgrees ==
  ASSUME IInv, AgreeInv, NEW w \in Workers, Save(w)
  PROVE  AgreeInv'
  <1>1. /\ TypeOK /\ Idle(w) /\ phase[w] = "applied" /\ UNCHANGED commands
        /\ overlapped' = (overlapped \/ behind[w])
        /\ behind' = [v \in Workers |-> v # w /\ (behind[v] \/ read[v] > 0)]
    BY DEF IInv, Save
  <1>2. /\ phase'[w] = "idle"
        /\ \A v \in Workers \ {w} :
             /\ phase'[v] = phase[v] /\ number'[v] = number[v] /\ read'[v] = read[v]
    BY <1>1, IdleType
  <1>3. \A v \in Workers : phase'[v] \in {"loaded", "applied"} => read'[v] > 0
    BY <1>2 DEF AgreeInv
  <1>4. ASSUME ~overlapped'  PROVE  ~overlapped /\ ~behind[w]
    BY <1>1, <1>4
  <1>5. ASSUME ~overlapped'
        PROVE  /\ Agree(store') /\ DOMAIN store'.columns \subseteq 1..commands
               /\ \A v \in Workers \ {w} :
                    phase[v] # "idle" => number[v] \notin DOMAIN store'.columns
    <2>1. \A x \in ListTables : store'[x] = core[w][x]
      BY <1>4, <1>5, SavesItsCore
    <2>2. /\ Agree(core[w])
          /\ DOMAIN core[w].columns \subseteq DOMAIN store.columns \cup {number[w]}
      BY <1>1, <1>4, <1>5 DEF AgreeInv, UpToDate
    <2>3. Agree(store') /\ store'.columns = core[w].columns
      BY <2>1, <2>2, SameTablesAgree DEF ListTables
    <2>4. /\ number[w] \in 1..commands
          /\ \A v \in Workers \ {w} : phase[v] # "idle" => number[v] # number[w]
      BY <1>1 DEF IInv, NumbersAreNew
    <2>5. /\ DOMAIN store.columns \subseteq 1..commands
          /\ \A v \in Workers : phase[v] # "idle" => number[v] \notin DOMAIN store.columns
      BY <1>4, <1>5 DEF AgreeInv
    <2>6. QED  BY <2>2, <2>3, <2>4, <2>5
  \* Whoever has read something is behind now, and who has not may still read.
  <1>6. ASSUME NEW v \in Workers, ~behind'[v]  PROVE  UpToDate(v)'
    <2>1. CASE v = w
      BY <1>2, <2>1 DEF UpToDate
    <2>2. CASE v # w
      <3>1. ~(read[v] > 0) /\ read[v] = read'[v]
        <4>1. behind'[v] = (v # w /\ (behind[v] \/ read[v] > 0))
          BY <1>1
        <4>2. QED  BY <1>2, <1>6, <2>2, <4>1
      <3>2. read'[v] = 0 /\ phase'[v] \notin {"loaded", "applied"}
        <4>1. read[v] \in Nat
          BY <1>1 DEF TypeOK
        <4>2. QED  BY <1>3, <3>1, <4>1
      <3>3. QED  BY <3>2 DEF UpToDate
    <2>3. QED  BY <2>1, <2>2
  <1>7. QED  BY <1>1, <1>2, <1>3, <1>5, <1>6 DEF AgreeInv

LEMMA DropAgrees ==
  ASSUME IInv, AgreeInv, NEW w \in Workers, Discard(w) \/ Fail(w)
  PROVE  AgreeInv'
  <1>1. /\ TypeOK /\ Idle(w) /\ UNCHANGED <<store, commands, overlapped>>
        /\ behind' = [behind EXCEPT ![w] = FALSE]
    BY DEF IInv, Discard, Fail
  <1>2. /\ phase'[w] = "idle"
        /\ \A v \in Workers \ {w} :
             /\ phase'[v] = phase[v] /\ command'[v] = command[v] /\ number'[v] = number[v]
             /\ read'[v] = read[v] /\ before'[v] = before[v] /\ core'[v] = core[v]
    BY <1>1, IdleType
  <1>3. \A v \in Workers \ {w} : behind'[v] = behind[v]
    BY <1>1 DEF TypeOK
  <1>4. UpToDate(w)'
    BY <1>2 DEF UpToDate
  <1>5. ASSUME ~overlapped, NEW v \in Workers \ {w}, ~behind[v]  PROVE  UpToDate(v)'
    BY <1>1, <1>2, <1>5, StaysUpToDate DEF AgreeInv
  <1>6. \A v \in Workers : phase'[v] \in {"loaded", "applied"} => read'[v] > 0
    BY <1>2 DEF AgreeInv
  <1>7. ASSUME ~overlapped
        PROVE  /\ Agree(store) /\ DOMAIN store.columns \subseteq 1..commands
               /\ \A v \in Workers : phase'[v] # "idle" => number'[v] \notin DOMAIN store.columns
    BY <1>2, <1>7 DEF AgreeInv
  <1>8. Agree(store') <=> Agree(store)
    BY <1>1
  <1>9. QED  BY <1>1, <1>3, <1>4, <1>5, <1>6, <1>7, <1>8 DEF AgreeInv

LEMMA StillAgrees ==
  ASSUME IInv, AgreeInv, TimePasses \/ UNCHANGED vars
  PROVE  AgreeInv'
  <1>1. UNCHANGED <<store, commands, phase, command, number, read, before, core, behind, overlapped>>
    BY DEF TimePasses, vars, local
  <1>2. ASSUME ~overlapped, NEW v \in Workers, ~behind[v]  PROVE  UpToDate(v)'
    BY <1>1, <1>2, StaysUpToDate DEF AgreeInv
  <1>3. Agree(store') <=> Agree(store)
    BY <1>1
  <1>4. QED  BY <1>1, <1>2, <1>3 DEF AgreeInv

LEMMA NextAgrees == IInv /\ AgreeInv /\ [Next]_vars => AgreeInv'
  <1> SUFFICES ASSUME IInv, AgreeInv, [Next]_vars  PROVE  AgreeInv'
    OBVIOUS
  <1>1. CASE \E w \in Workers, c \in Requests : Begin(w, c)
    BY <1>1, BeginAgrees
  <1>2. CASE \E w \in Workers : Read(w)
    BY <1>2, ReadAgrees
  <1>3. CASE \E w \in Workers : Apply(w)
    BY <1>3, ApplyKeepsAgreement
  <1>4. CASE \E w \in Workers : Save(w)
    BY <1>4, SaveAgrees
  <1>5. CASE \E w \in Workers : Discard(w) \/ Fail(w)
    BY <1>5, DropAgrees
  <1>6. CASE TimePasses \/ UNCHANGED vars
    BY <1>6, StillAgrees
  <1>7. QED  BY <1>1, <1>2, <1>3, <1>4, <1>5, <1>6 DEF Next

\* What the invariant says of the store is what the property says.
LEMMA AgreeInvShows == AgreeInv => ListsAgree
  <1> SUFFICES ASSUME AgreeInv, ~overlapped
               PROVE  /\ \A l \in DOMAIN store.checklists : Counted(store, l)
                      /\ \A t \in DOMAIN store.tasks :
                           /\ store.tasks[t].list \in DOMAIN store.checklists
                           /\ \A column \in ColumnsOf(store, store.tasks[t].list) :
                                Cardinality(CellsAt(store, t, column)) = 1
                      /\ \A k \in DOMAIN store.cells :
                           /\ k[2] \in DOMAIN store.tasks
                           /\ k[3] \in ColumnsOf(store, store.tasks[k[2]].list)
                      /\ Range(store.columns) \cup Range(store.publications)
                           \subseteq DOMAIN store.checklists
    BY Zenon DEF ListsAgree, Counted, CellsAt
  <1>1. Placed(store) /\ \A l \in DOMAIN store.checklists : Counted(store, l)
    BY DEF AgreeInv, Agree
  <1>2. ASSUME NEW t \in DOMAIN store.tasks, NEW column \in ColumnsOf(store, store.tasks[t].list)
        PROVE  Cardinality(CellsAt(store, t, column)) = 1
    <2>1. PICK k : CellsAt(store, t, column) = {k}
      BY <1>1 DEF Placed
    <2>2. QED  BY <2>1, FS_Singleton
  <1>3. Range(store.columns) \cup Range(store.publications) \subseteq DOMAIN store.checklists
    BY <1>1 DEF Placed, Range
  <1>4. QED  BY <1>1, <1>2, <1>3 DEF Placed

\* As long as nobody has saved a snapshot that was out of date, the counts of every stored
\* list are those of its tasks, every task has exactly one cell in each column of its list,
\* and nothing is left of a list that is gone, whatever was rejected or failed on the way
\* (recompute_checklist_status, add_checklist_task_row, delete_checklist).
THEOREM TablesAgree == Spec => []ListsAgree
  <1>1. Spec => []AgreeInv
    BY InitAgrees, NextAgrees, Invariant, PTL DEF Spec
  <1>2. QED  BY <1>1, AgreeInvShows, PTL
=============================================================================
