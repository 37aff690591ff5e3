------------------------- MODULE ChecklistCommands -------------------------
(***************************************************************************)
(* How checklist commands change the store.  Every command, whether it     *)
(* comes as an HTTP request or as a message, is handled in the same way:   *)
(* a worker reads the tables it needs, one SELECT after the other and in   *)
(* no transaction, applies the command to a core built from what it read,  *)
(* and saves the difference between the two in one transaction.  Nothing   *)
(* keeps two workers apart.                                                *)
(*                                                                         *)
(* A table is a function from the keys of its rows to their contents.  A   *)
(* new key (a UUID) is the number of the command that made it.  The        *)
(* columns of a checklist are made together and never one by one: one      *)
(* column stands for them.                                                 *)
(***************************************************************************)
EXTENDS Integers, FiniteSets, Sequences, Functions

CONSTANTS
  Lists,        \* checklist uids a client may choose
  Rows,         \* task uids a client may choose
  HttpWorkers,  \* threads that run checklist_command and r3akt_command
  RadioWorkers, \* the worker that carries out commands that came as messages
  Requests,     \* the commands that may come, see AllRequests
  MaxCommands   \* bound: commands

Workers  == HttpWorkers \cup RadioWorkers
None     == "none"
Modes    == {"ONLINE", "OFFLINE"}
Syncs    == {"SYNCED", "LOCAL_ONLY"}
Statuses == {"PENDING", "LATE", "COMPLETE", "COMPLETE_LATE"}
Missions == {None, "known", "unknown"}
Invalid  == "invalid"

\* The fields a patch may have, in the order in which it is carried out, and
\* their values; some of them are normalized and may be refused.
Fields      == <<"name", "mission", "mode", "sync", "status">>
FieldValues == [name |-> {"renamed"}, mission |-> Missions, mode |-> Modes \cup {Invalid},
                sync |-> Syncs \cup {Invalid}, status |-> Statuses \cup {Invalid}]
Patches     == {patch \in UNION {[F -> UNION Range(FieldValues)] : F \in SUBSET Range(Fields)} :
                  \A f \in DOMAIN patch : patch[f] \in FieldValues[f]}

AllRequests ==
       [op : {"create"}, list : Lists, mode : Modes, mission : Missions, rows : Seq(Rows)]
  \cup [op : {"row.add"}, list : Lists, row : Rows, due : BOOLEAN]
  \cup [op : {"row.delete", "style.set", "cell.set"}, list : Lists, row : Rows]
  \cup [op : {"status.set"}, list : Lists, row : Rows, user : {"PENDING", "COMPLETE"}]
  \cup [op : {"update"}, list : Lists, patch : Patches]
  \cup [op : {"delete", "upload", "publish", "join"}, list : Lists]
  \cup [op : {"assign"}, row : Rows, mission : {"known", "unknown"}]

ASSUME BoundsAssumption ==
  /\ Requests \subseteq AllRequests
  /\ HttpWorkers \cap RadioWorkers = {}
  /\ MaxCommands \in Nat
ASSUME FiniteRows == IsFiniteSet(Rows)

\* Rows are written into a table; what it has under their keys is replaced.
Written(table, rows) ==
  [k \in DOMAIN table \cup DOMAIN rows |-> IF k \in DOMAIN rows THEN rows[k] ELSE table[k]]
Put(table, key, row) == Written(table, [k \in {key} |-> row])

Tables == {"checklists", "columns", "tasks", "cells", "publications", "changes", "assignments"}
Empty  == [t \in Tables |-> << >>]
Nobody == [op |-> None]

VARIABLES
  store,      \* SQLite: the contents of every table
  passed,     \* whether the due times of the tasks have passed
  commands,   \* how many commands have come
  phase,      \* per worker: "idle", "reading", "loaded" or "applied"
  command,    \* per worker: the request
  number,     \* per worker: its number, from which new keys are made
  read,       \* per worker: how many tables it has read
  before,     \* per worker: the snapshot
  core,       \* per worker: the snapshot with the command applied
  ok,         \* per worker: whether the command was accepted
  behind,     \* history: somebody else saved since the worker began to read
  overlapped  \* history: a worker has saved although it was behind

local == <<phase, command, number, read, before, core, ok>>
vars  == <<store, passed, commands, local, behind, overlapped>>

Init ==
  /\ store = Empty /\ passed = FALSE /\ commands = 0
  /\ phase = [w \in Workers |-> "idle"]
  /\ command = [w \in Workers |-> Nobody]
  /\ number = [w \in Workers |-> 0]
  /\ read = [w \in Workers |-> 0]
  /\ before = [w \in Workers |-> Empty]
  /\ core = [w \in Workers |-> Empty]
  /\ ok = [w \in Workers |-> FALSE]
  /\ behind = [w \in Workers |-> FALSE]
  /\ overlapped = FALSE

-----------------------------------------------------------------------------
(* A command comes and its worker reads the store.                         *)

Registry(c) == c.op = "assign"

Statements(c) ==
  IF Registry(c)
  THEN <<"changes", "assignments", "checklists", "columns", "tasks", "cells", "publications">>
  ELSE <<"checklists", "columns", "tasks", "cells", "publications", "changes", "assignments">>

Begin(w, c) ==
  /\ phase[w] = "idle" /\ commands < MaxCommands
  /\ commands' = commands + 1
  /\ phase' = [phase EXCEPT ![w] = "reading"]
  /\ command' = [command EXCEPT ![w] = c]
  /\ number' = [number EXCEPT ![w] = commands + 1]
  /\ UNCHANGED <<store, passed, read, before, core, ok, behind, overlapped>>

Read(w) ==
  /\ phase[w] = "reading"
  /\ LET table == Statements(command[w])[read[w] + 1] IN
     before' = [before EXCEPT ![w][table] = store[table]]
  /\ read' = [read EXCEPT ![w] = @ + 1]
  /\ IF read'[w] = Len(Statements(command[w]))
     THEN /\ phase' = [phase EXCEPT ![w] = "loaded"]
          /\ core' = [core EXCEPT ![w] = before'[w]]
     ELSE UNCHANGED <<phase, core>>
  /\ UNCHANGED <<store, passed, commands, command, number, ok, behind, overlapped>>

-----------------------------------------------------------------------------
(* What the commands do to the tables of a core.                           *)

ColumnsOf(tables, l) == {k \in DOMAIN tables.columns : tables.columns[k] = l}
TasksOf(tables, l)   == {t \in DOMAIN tables.tasks : tables.tasks[t].list = l}
HasTask(tables, l, t) == l \in DOMAIN tables.checklists /\ t \in TasksOf(tables, l)

Derived(task) ==
  IF task.user = "COMPLETE"
  THEN IF task.due /\ task.completed = "late" THEN "COMPLETE_LATE" ELSE "COMPLETE"
  ELSE IF task.due /\ passed THEN "LATE" ELSE "PENDING"

\* The status of a checklist of which so many tasks are pending, late, complete.
Summary(pending, late, complete, completeLate) ==
  CASE pending + complete = 0 \/ (pending > 0 /\ late = 0) -> "PENDING"
    [] pending = 0 /\ complete > 0 /\ completeLate         -> "COMPLETE_LATE"
    [] pending = 0 /\ complete > 0 /\ ~completeLate        -> "COMPLETE"
    [] OTHER                                               -> "LATE"

\* Every task of the list gets its status, and the list its counts.
Recomputed(tables, l) ==
  LET tasks == [t \in DOMAIN tables.tasks |->
                  IF t \in TasksOf(tables, l)
                  THEN [tables.tasks[t] EXCEPT !.status = Derived(tables.tasks[t])]
                  ELSE tables.tasks[t]]
      With(status) == {t \in TasksOf(tables, l) : tasks[t].status = status}
      complete == {t \in TasksOf(tables, l) : tasks[t].user = "COMPLETE"}
      pending  == Cardinality(TasksOf(tables, l) \ complete)
      late     == Cardinality(With("LATE"))
  IN [tables EXCEPT
        !.tasks = tasks,
        !.checklists[l] =
          [@ EXCEPT !.pending = pending, !.late = late, !.complete = Cardinality(complete),
                    !.status = Summary(pending, late, Cardinality(complete),
                                       With("COMPLETE_LATE") # {})]]

\* Rows are added to a list; a row it already has gets a new due time only.
\* by: the row.add command that adds them, 0 when they come with the list.
RowsAdded(tables, l, R, due, n, by) ==
  LET new   == R \ DOMAIN tables.tasks
      fresh == [list |-> l, user |-> "PENDING", status |-> "PENDING", due |-> due,
                completed |-> "no", by |-> by]
      cells == {n} \X new \X ColumnsOf(tables, l)
  IN Recomputed(
       [tables EXCEPT
          !.tasks = Written([t \in DOMAIN @ |-> IF t \in R THEN [@[t] EXCEPT !.due = due] ELSE @[t]],
                            [t \in new |-> fresh]),
          !.cells = Written(@, [k \in cells |-> None])], l)

\* The rows before the first one that belongs to another list, and whether there is one.
InUse(tables, l, t)  == t \in DOMAIN tables.tasks /\ tables.tasks[t].list # l
Addable(tables, l, rows) ==
  {rows[i] : i \in {j \in DOMAIN rows : \A k \in 1..j : ~InUse(tables, l, rows[k])}}

\* Mutant of Announce: a mission change takes the place of those before it.
AnnounceLast(tables, n, kind, l, t) ==
  [tables EXCEPT !.changes = [k \in {n} |-> [kind |-> kind, list |-> l, row |-> t]]]

\* The mission change a command records, under a key of its own.
Announce(tables, n, kind, l, t) ==
  [tables EXCEPT !.changes = Put(@, n, [kind |-> kind, list |-> l, row |-> t])]

\* A list goes with its columns, tasks, cells, publications and assignments.
ListRemoved(tables, l) ==
  LET gone == TasksOf(tables, l)
      Only(f, Kept(_)) == Restrict(f, {k \in DOMAIN f : Kept(k)})
  IN [tables EXCEPT
        !.checklists   = Restrict(@, DOMAIN @ \ {l}),
        !.columns      = Restrict(@, DOMAIN @ \ ColumnsOf(tables, l)),
        !.tasks        = Restrict(@, DOMAIN @ \ gone),
        !.cells        = Only(@, LAMBDA k : k[2] \notin gone),
        !.publications = Only(@, LAMBDA k : tables.publications[k] # l),
        !.assignments  = Only(@, LAMBDA k : tables.assignments[k].row \notin gone)]

\* Mutant of RowRemoved: the list is not recomputed.
RowRemovedUncounted(tables, l, t) ==
  [tables EXCEPT !.tasks = Restrict(@, DOMAIN @ \ {t}),
                 !.cells = Restrict(@, {k \in DOMAIN @ : k[2] # t})]

\* A row goes with its cells; its assignments stay.
RowRemoved(tables, l, t) ==
  Recomputed([tables EXCEPT
                !.tasks = Restrict(@, DOMAIN @ \ {t}),
                !.cells = Restrict(@, {k \in DOMAIN @ : k[2] # t})], l)

\* The fields of a patch that take effect: those before the first one that is refused.
Refused(patch, f) == f \in DOMAIN patch /\ patch[f] \in {Invalid, "unknown"}
Accepted(patch) ==
  {Fields[i] : i \in {j \in DOMAIN Fields :
                        /\ Fields[j] \in DOMAIN patch
                        /\ \A k \in 1..j : ~Refused(patch, Fields[k])}}
PatchedRaw(tables, l, patch) ==  \* mutant of Patched: the values are not normalized
  [tables EXCEPT !.checklists[l] = Written(@, patch)]

Patched(tables, l, patch) ==
  [tables EXCEPT !.checklists[l] = Written(@, Restrict(patch, Accepted(patch)))]

-----------------------------------------------------------------------------
(* A worker applies its command.                                           *)

Loaded(w, op) == phase[w] = "loaded" /\ command[w].op = op

Answer(w, accepted, tables) ==
  /\ phase' = [phase EXCEPT ![w] = "applied"]
  /\ core' = [core EXCEPT ![w] = tables]
  /\ ok' = [ok EXCEPT ![w] = accepted]
  /\ UNCHANGED <<store, passed, commands, command, number, read, before, behind, overlapped>>

Accept(w, tables) == Answer(w, TRUE, tables)
Reject(w, tables) == Answer(w, FALSE, tables)

\* checklist.create.online and .offline, and checklist.import.csv, which creates
\* an online list and adds its rows.
CreateNew(w) ==
  LET c == command[w]  n == number[w]
      listed ==
        [core[w] EXCEPT
           !.checklists = Put(@, c.list,
             [name |-> "given", mission |-> c.mission, mode |-> c.mode,
              sync |-> IF c.mode = "ONLINE" THEN "SYNCED" ELSE "LOCAL_ONLY",
              status |-> "PENDING", pending |-> 0, late |-> 0, complete |-> 0]),
           !.columns = Put(@, n, c.list)]
      added == Addable(listed, c.list, c.rows)
      result == RowsAdded(listed, c.list, added, TRUE, n, 0)
  IN /\ Loaded(w, "create") /\ c.mission # "unknown" /\ c.list \notin DOMAIN core[w].checklists
     /\ IF added # Range(c.rows) THEN Reject(w, result)
        ELSE IF c.mode = "ONLINE" THEN Accept(w, Announce(result, n, "created", c.list, None))
        ELSE Accept(w, result)

\* A list that exists is returned as it is, and announced once more.
CreateExisting(w) ==
  LET c == command[w] IN
  /\ Loaded(w, "create") /\ c.mission # "unknown" /\ c.list \in DOMAIN core[w].checklists
  /\ Accept(w, IF c.mode = "ONLINE" THEN Announce(core[w], number[w], "created", c.list, None)
               ELSE core[w])

CreateRejected(w) ==
  Loaded(w, "create") /\ command[w].mission = "unknown" /\ Reject(w, core[w])

RowAdd(w) ==
  LET c == command[w]  n == number[w]
      result == RowsAdded(core[w], c.list, {c.row}, c.due, n, n)
  IN /\ Loaded(w, "row.add")
     /\ IF c.list \notin DOMAIN core[w].checklists \/ InUse(core[w], c.list, c.row)
        THEN Reject(w, core[w])
        ELSE Accept(w, IF c.row \in DOMAIN core[w].tasks THEN result
                       ELSE Announce(result, n, "row added", c.list, c.row))

RowDelete(w) ==
  LET c == command[w] IN
  /\ Loaded(w, "row.delete") /\ HasTask(core[w], c.list, c.row)
  /\ Accept(w, Announce(RowRemoved(core[w], c.list, c.row), number[w], "row deleted", c.list, c.row))

RowStyleSet(w) ==
  LET c == command[w] IN
  /\ Loaded(w, "style.set") /\ HasTask(core[w], c.list, c.row)
  /\ Accept(w, Announce(Recomputed(core[w], c.list), number[w], "style set", c.list, c.row))

\* The cell of the row and a column of its list gets a value; it is made if missing.
CellSet(w) ==
  LET c == command[w]  n == number[w] IN
  /\ Loaded(w, "cell.set") /\ HasTask(core[w], c.list, c.row)
  /\ \E column \in ColumnsOf(core[w], c.list) :
       LET old == {k \in DOMAIN core[w].cells : k[2] = c.row /\ k[3] = column} IN
       \E k \in IF old = {} THEN {<<n, c.row, column>>} ELSE old :
         Accept(w, Announce(Recomputed([core[w] EXCEPT !.cells = Put(@, k, "filled")], c.list),
                            n, "cell set", c.list, c.row))

\* The column that was named is not one of the list.
CellRejected(w) ==
  /\ Loaded(w, "cell.set") /\ HasTask(core[w], command[w].list, command[w].row)
  /\ Reject(w, core[w])

\* A completed task keeps the time of its first completion.
StatusSet(w) ==
  LET c == command[w]
      task == core[w].tasks[c.row]
      completed == CASE c.user # "COMPLETE" -> "no"
                     [] c.user = "COMPLETE" /\ task.completed # "no" -> task.completed
                     [] OTHER -> IF passed THEN "late" ELSE "early"
      tables == [core[w] EXCEPT !.tasks[c.row] = [@ EXCEPT !.user = c.user,
                                                          !.completed = completed]]
  IN /\ Loaded(w, "status.set") /\ HasTask(core[w], c.list, c.row)
     /\ Accept(w, Announce(Recomputed(tables, c.list), number[w], "status set", c.list, c.row))

\* row.delete, style.set, cell.set and status.set of a list or row that is not there.
RowMissing(w) ==
  /\ \E op \in {"row.delete", "style.set", "cell.set", "status.set"} : Loaded(w, op)
  /\ ~HasTask(core[w], command[w].list, command[w].row)
  /\ Reject(w, core[w])

\* A patch is carried out up to the field that is refused; a mission the list
\* did not have is announced when the list is online and synced.
Update(w) ==
  LET c == command[w]
      result == Patched(core[w], c.list, c.patch)
      was == core[w].checklists[c.list]
      now == result.checklists[c.list]
  IN /\ Loaded(w, "update") /\ c.list \in DOMAIN core[w].checklists
     /\ IF Accepted(c.patch) # DOMAIN c.patch THEN Reject(w, result)
        ELSE IF /\ now.mission # None /\ now.mission # was.mission
                /\ now.mode = "ONLINE" /\ now.sync = "SYNCED"
             THEN Accept(w, Announce(result, number[w], "created", c.list, None))
             ELSE Accept(w, result)

Delete(w) ==
  LET c == command[w] IN
  /\ Loaded(w, "delete") /\ c.list \in DOMAIN core[w].checklists
  /\ Accept(w, ListRemoved(core[w], c.list))

Upload(w) ==
  LET c == command[w] IN
  /\ Loaded(w, "upload") /\ c.list \in DOMAIN core[w].checklists
  /\ Accept(w, Announce([core[w] EXCEPT !.checklists[c.list].sync = "SYNCED"],
                        number[w], "uploaded", c.list, None))

\* An offline list is published only when it is synced.
Publish(w) ==
  LET c == command[w]
      list == core[w].checklists[c.list]
  IN /\ Loaded(w, "publish") /\ c.list \in DOMAIN core[w].checklists
     /\ IF list.mode = "OFFLINE" /\ list.sync # "SYNCED" THEN Reject(w, core[w])
        ELSE Accept(w, [core[w] EXCEPT !.publications = Put(@, number[w], c.list)])

\* join, and the commands that only read: they are saved like the others.
Join(w) ==
  Loaded(w, "join") /\ command[w].list \in DOMAIN core[w].checklists /\ Accept(w, core[w])

ListMissing(w) ==
  /\ \E op \in {"update", "delete", "upload", "publish", "join"} : Loaded(w, op)
  /\ command[w].list \notin DOMAIN core[w].checklists
  /\ Reject(w, core[w])

\* mission.registry.assignment.upsert for a member of a team
Assign(w) ==
  LET c == command[w]  n == number[w]  held == core[w].tasks IN
  /\ Loaded(w, "assign")
  /\ IF c.mission = "unknown" \/ c.row \notin DOMAIN held THEN Reject(w, core[w])
     ELSE Accept(w, Announce([core[w] EXCEPT !.assignments =
                                Put(@, n, [row |-> c.row, list |-> held[c.row].list])],
                             n, "assigned", held[c.row].list, c.row))

Apply(w) ==
  \/ CreateNew(w) \/ CreateExisting(w) \/ CreateRejected(w)
  \/ RowAdd(w) \/ RowDelete(w) \/ RowStyleSet(w) \/ CellSet(w) \/ CellRejected(w)
  \/ StatusSet(w) \/ RowMissing(w) \/ Update(w) \/ Delete(w) \/ Upload(w) \/ Publish(w)
  \/ Join(w) \/ ListMissing(w) \/ Assign(w)

-----------------------------------------------------------------------------
(* The worker saves, in one transaction, what it changed - and with it     *)
(* everything else it had read.                                            *)

\* The tables a command saves.
Saved(c) == IF Registry(c) THEN {"changes", "assignments"} ELSE Tables

SaveSnapshot(stored, old, new) == new  \* mutant of SaveDelta: the whole table is replaced

\* Rows that are gone are deleted, all others are written.
SaveDelta(stored, old, new) ==
  Written(Restrict(stored, DOMAIN stored \ (DOMAIN old \ DOMAIN new)), new)

Idle(w) ==
  /\ phase' = [phase EXCEPT ![w] = "idle"]
  /\ command' = [command EXCEPT ![w] = Nobody]
  /\ number' = [number EXCEPT ![w] = 0]
  /\ read' = [read EXCEPT ![w] = 0]
  /\ before' = [before EXCEPT ![w] = Empty]
  /\ core' = [core EXCEPT ![w] = Empty]
  /\ ok' = [ok EXCEPT ![w] = FALSE]

\* A request is saved when it was accepted, a message in any case.
Save(w) ==
  /\ phase[w] = "applied" /\ (ok[w] \/ w \in RadioWorkers)
  /\ store' = [t \in Tables |-> IF t \in Saved(command[w])
                               THEN SaveDelta(store[t], before[w][t], core[w][t])
                               ELSE store[t]]
  /\ overlapped' = (overlapped \/ behind[w])
  /\ behind' = [v \in Workers |-> v # w /\ (behind[v] \/ read[v] > 0)]
  /\ Idle(w)
  /\ UNCHANGED <<passed, commands>>

\* A rejected request is answered and forgotten.
Discard(w) ==
  /\ phase[w] = "applied" /\ ~ok[w] /\ w \in HttpWorkers
  /\ Idle(w)
  /\ behind' = [behind EXCEPT ![w] = FALSE]
  /\ UNCHANGED <<store, passed, commands, overlapped>>

\* The store cannot be read or written, or the hub dies: the command is lost.
Fail(w) ==
  /\ phase[w] # "idle"
  /\ Idle(w)
  /\ behind' = [behind EXCEPT ![w] = FALSE]
  /\ UNCHANGED <<store, passed, commands, overlapped>>

TimePasses ==
  /\ ~passed /\ passed' = TRUE
  /\ UNCHANGED <<store, commands, local, behind, overlapped>>

Next ==
  \/ \E w \in Workers : \/ \E c \in Requests : Begin(w, c)
                        \/ Read(w) \/ Apply(w) \/ Save(w) \/ Discard(w) \/ Fail(w)
  \/ TimePasses

Spec == Init /\ [][Next]_vars

-----------------------------------------------------------------------------
(* Properties                                                              *)

ListRecord == [name : {"given", "renamed"}, mission : {None, "known"}, mode : Modes, sync : Syncs,
               status : Statuses, pending : Nat, late : Nat, complete : Nat]
TaskRecord == [list : Lists, user : {"PENDING", "COMPLETE"}, status : Statuses, due : BOOLEAN,
               completed : {"no", "early", "late"}, by : 0..MaxCommands]
Numbers     == 1..MaxCommands
ChangeKinds == {"created", "uploaded", "row added", "row deleted", "style set", "cell set",
                "status set", "assigned"}

\* The tables hold rows of the right form under keys of the right form.
IsTable(f, Keys, Values) ==
  f = [k \in DOMAIN f |-> f[k]] /\ DOMAIN f \subseteq Keys /\ Range(f) \subseteq Values
TablesOK(tables) ==
  /\ tables = [t \in Tables |-> tables[t]]
  /\ IsTable(tables.checklists, Lists, ListRecord)
  /\ IsTable(tables.columns, Numbers, Lists)
  /\ IsTable(tables.tasks, Rows, TaskRecord)
  /\ IsTable(tables.cells, Numbers \X Rows \X Numbers, {None, "filled"})
  /\ IsTable(tables.publications, Numbers, Lists)
  /\ IsTable(tables.changes, Numbers, [kind : ChangeKinds, list : Lists, row : Rows \cup {None}])
  /\ IsTable(tables.assignments, Numbers, [row : Rows, list : Lists])

\* Type invariant: the store, and what the workers read and computed.
TypeOK ==
  /\ TablesOK(store) /\ passed \in BOOLEAN /\ commands \in 0..MaxCommands
  /\ phase \in [Workers -> {"idle", "reading", "loaded", "applied"}]
  /\ command \in [Workers -> Requests \cup {Nobody}]
  /\ number \in [Workers -> 0..MaxCommands]
  /\ read \in [Workers -> 0..7]
  /\ before = [w \in Workers |-> before[w]] /\ core = [w \in Workers |-> core[w]]
  /\ \A w \in Workers : TablesOK(before[w]) /\ TablesOK(core[w])
  /\ ok \in [Workers -> BOOLEAN]
  /\ behind \in [Workers -> BOOLEAN] /\ overlapped \in BOOLEAN

\* As long as no worker has saved a snapshot that was out of date, whatever was
\* rejected, failed, repeated or half carried out on the way: the counts of a stored
\* list are those of its stored tasks (recompute_checklist_status), every stored task
\* belongs to a stored list and has exactly one cell in each of its columns, and there
\* is no other cell, column or publication (add_checklist_task_row, delete_checklist).
ListsAgree ==
  ~overlapped =>
    /\ \A l \in DOMAIN store.checklists :
         LET tasks == TasksOf(store, l)
             done  == {t \in tasks : store.tasks[t].user = "COMPLETE"}
             late  == {t \in tasks : store.tasks[t].status = "LATE"}
         IN /\ store.checklists[l].pending  = Cardinality(tasks \ done)
            /\ store.checklists[l].complete = Cardinality(done)
            /\ store.checklists[l].late     = Cardinality(late)
    /\ \A t \in DOMAIN store.tasks :
         /\ store.tasks[t].list \in DOMAIN store.checklists
         /\ \A column \in ColumnsOf(store, store.tasks[t].list) :
              Cardinality({k \in DOMAIN store.cells : k[2] = t /\ k[3] = column}) = 1
    /\ \A k \in DOMAIN store.cells :
         k[2] \in DOMAIN store.tasks /\ k[3] \in ColumnsOf(store, store.tasks[k[2]].list)
    /\ Range(store.columns) \cup Range(store.publications) \subseteq DOMAIN store.checklists

\* The rest of the network learns of a row from its mission change: however workers
\* overlap, a row that a row.add command put into the store has its change there too.
AddedRowsAreAnnounced ==
  \A t \in DOMAIN store.tasks :
    LET n == store.tasks[t].by IN
    n # 0 => /\ n \in DOMAIN store.changes
             /\ store.changes[n].kind = "row added" /\ store.changes[n].row = t

\* The mission changes are a log: no save of any worker drops or alters one
\* (save_payload_delta writes the whole snapshot of each worker).
ChangesAreKept ==
  [][\A n \in DOMAIN store.changes :
       n \in DOMAIN store'.changes /\ store'.changes[n] = store.changes[n]]_vars
=============================================================================
