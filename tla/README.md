# A verification project for the Reticulum Community Hub server

The hub (`crates/r3akt-rch-server`) is one process between northbound clients (HTTP,
WebSocket) and a radio network. It keeps its state in memory and in SQLite, hands messages
to a local `reticulumd` through a ZeroMQ data plane (`crates/r3akt-transport-rns`), takes
what `reticulumd` has received from its event stream, and carries out commands that arrive
either way on the tables of `crates/r3akt-rch-core`. A second process, the TAK connector
(`crates/r3akt-tak-connector`), passes chats and positions on to a TAK server.

This directory holds TLA+ modules of seven of its parts, TLC configurations that check them
on small instances, and TLAPS proofs about six of them. In this file `lib.rs` without a
crate is `crates/r3akt-rch-server/src/lib.rs`, and line numbers are those of the sources the
modules were written from.

Contents: 1 inventory, 2 modules, 3 runs, 4 fairness, 5 proofs, 6 what the checks found,
7 what is left out, 8 plan.

## 1. Inventory

### How the parts interact

    clients ── HTTP ──> handlers ──────────┬──> memory (AppState, one lock per table) ──┐
       ^                                   │                                            │
       └─ WebSocket <── broadcast          ├──> SQLite (opened for every access) <──────┤
                                           │                                            │
    inbound worker ── envelopes, commands ─┘          outbound worker (tick, receipts) ─┘
          │ poll, list                                        │ send, status
          └──────────────> data plane: two lanes, one actor <─┘
                                   │ session
                               reticulumd ── radio

Memory is shared by the handlers and workers under one `RwLock` per table, and no lock is
held across a call to `reticulumd` or a write of the store. The store is opened anew by
every operation; apart from the transaction of a save nothing orders two of them. The
workers are started once and tick for the life of the process; a tick runs on a blocking
thread under a timeout that abandons it and does not stop it.

### Components

**Outbound delivery** (`lib.rs` 11314-12440, 13242-13682, 14560-17053). State: one row per
message with its delivery state, attempt, schedule, receipt targets and deadlines.
Operations: admission, the worker's tick (select, dispatch, retry, fall back to
propagation, poll receipts, finalize what is overdue), callbacks of the adapter, repair at
startup. Hard: a tick works on clones and locks the row anew for each write; ticks and
callbacks interleave; a batch may be accepted in part; a dispatch may time out while
`reticulumd` has taken it. Correct when: an accepted message is not sent again, a final
state is backed by what `reticulumd` said, a retry leaves out whoever was admitted, the
attempts are bounded, and every message settles.

**ZeroMQ data plane** (`transport-rns/src/lib.rs`, `actor_helpers.rs`). State: two bounded
lanes, counters, the actor's session, the service identity. Operations: enqueue with
counters taken back on refusal, prioritized receive, expiry, session opening with the
identity restored, shutdown and drop. Hard: count first and enqueue later; callers give up
while their request waits; an error in the middle of a registration; a full lane at
shutdown. Correct when: counters agree with the lanes, control requests are not starved,
nothing is started for a caller that has gone, every request is made under the identity
registered last, and the actor ends.

**Inbound events** (`lib.rs` 2966-5130, `reticulumd_inbound.rs`, `field_commands.rs`).
State: the cursor in memory and in the store, marks of handled messages among the system
events, the message list. Operations: poll, recovery of the retained history after a gap,
quarantine, handling of an envelope (record, relay or carry out, mark), saving the cursor.
Hard: any write may fail, the hub may die anywhere, `reticulumd` forgets events and
restarts, marks are evicted. Correct when: the cursor never passes a message that was not
dealt with, no message takes effect twice while its mark lives, and the cursor gets on.

**Checklist commands and their store** (`rch-core/src/lib.rs` 2147-2520, 5952-8870,
10740-11400; `lib.rs` 5060-5130, 23870-23960). State: the tables of checklists, columns,
tasks, cells, publications, changes and assignments. Operations: the commands of the
`checklist.*` family and the assignment upsert, each read, applied and saved as a snapshot.
Hard: two workers read, apply and save with nothing between them. Correct when: counts and
cells agree with the tasks, an added row is announced, and the log of changes only grows.

**Missions, teams, zones, markers and assets** (`rch-core/src/lib.rs` 6448-7884, 8848-8894,
10687-11200; `lib.rs` 24840-24930). State: the tables of missions with their parents, places
and their links, changes, log entries, teams, members, clients, assets, skills, assignments
and status snapshots. Operations: the commands of the `mission.registry.*` and marker
families, each read, applied and saved as a snapshot. Hard: a relation is kept in a row and in
a link table; deletions must follow references; a message that is refused is saved with what
it had done; a cycle of parents is looked for in a snapshot. Correct when: missions are a
tree, both forms of a relation agree, a callsign has one report, and a save takes out only what
its command was to remove.

**Kill switch and first-run setup** (`lib.rs` 403-473, 14075-14330, 17556-17990,
18164-18420; `auth.rs`). State: arms, mode, authorization with a lifetime of 120 s, the PIN
and password in the store. Operations: status, arm, authorize, purge, the purge worker,
setup. Hard: status changes the mode; every writer checks the lock on persistence before it
opens the store, so a purge may begin in between, and some writers do not check at all;
three settings are committed one by one. Correct when: a purge starts only when both arms
are set and the authorization is fresh, and from its start nothing is written.

**Runtime control and managed reticulumd** (`lib.rs` 881-1000, 3340-3370, 25501-25562).
State: the child process, the status of the runtime, pauses of the workers. Hard: one
failing step of the shutdown leaves out those after it; a stop races a start.

**Authentication and throttling** (`auth.rs` 32-230). State: failures per kind and client
with a lockout. Correct when: an attempt is refused during a lockout and a success clears
only its own client.

**TAK connector** (`crates/r3akt-tak-connector`). State: bounded queue of outgoing CoT behind
a mutex, running or stopped, the last error, the times of the probes. Operations: enqueue and
flush, the worker's round (flush, ping, keepalive), start, stop, shutdown. Hard: a send that
fails after its bytes went out, a full queue, a server that is away for long. Correct when:
what was accepted arrives in order, probes leave room for messages, an error is shown as long
as there is a backlog.

**Topics, subscribers and group relay; REM team routing** (`lib.rs` 14380-14560,
16976-17053; `rem_team_*.rs`). State: subscriptions with pauses, bans, team tables. Correct
when: a relay reaches those who asked for it and nobody else, the sender left out.

**Event broadcast and WebSocket** (`lib.rs` 27621-28130). State: broadcast channel and a
filter per session. Hard: a receiver that lags loses events; a heartbeat races a close.

**Telemetry; topic diagnostics; protocol, identity and profile crates; bridge; Python
migration; SAR seed; web interface; desktop application; scripts**: tables, conversions,
imports and clients of the above. `PROJECT.json` gives for each of them why it is not
modelled.

## 2. Modules

| Component | Specification | Instances for TLC | Proofs |
|---|---|---|---|
| Outbound delivery | `OutboundDelivery` | `MCOutboundDelivery` | `OutboundDeliveryProofs`, `OutboundSettledProofs` |
| ZeroMQ data plane | `ZmqDataPlane` | `MCZmqDataPlane` | `ZmqDataPlaneProofs` |
| Inbound events | `InboundEvents` | `MCInboundEvents` | `InboundEventsProofs` |
| Checklist commands | `ChecklistCommands` | `MCChecklistCommands` | `ChecklistProofs` |
| Kill switch, throttling, runtime control | `KillSwitch` | `MCKillSwitch` | `KillSwitchProofs` |
| TAK connector | `TakService`; `TakPromise`, its abstract specification | `MCTakService` | `TakServiceProofs` |
| Missions, teams, places, assets | `MissionRegistry` | `MCMissionRegistry` | `MissionRegistryProofs` |

Each specification has one action per step that other actors can observe: what happens
under one acquisition of a lock, one transaction of the store, or one answer of
`reticulumd`. `PROJECT.json` maps every definition to the lines it stands for. The
definitions at the end of some sections whose names repeat another with a suffix
(`VerdictFirstAnswer`, `SendsFirst`, ...) are mutations: plausible mistakes in the mapped
definition, each of which must break a property.

### OutboundDelivery

- `msgs[m]` is the row: the fields of `delivery_metadata` that guards read. Persistence is
  part of the write. `tick[t]` is where a tick is, with its clones; `failing[m]` is a
  failure callback between its read and its write.
- There is no clock. `due`, `dexp`, `rexp` of a row and `overdue` of a tick say that a
  backoff, a dispatch deadline, a receipt deadline or the 31 s of a tick have passed;
  `BackoffElapses`, `DispatchDeadline`, `ReceiptDeadline` and `TickOverdue` raise them at
  any time.
- `Record` admits a message. `StartTick`, `SelectDue`, `RepairDirectTimeout`,
  `BeginAttempt`, `DispatchAnswered` or `DispatchErred`, `CheckCurrent`, then one of
  `RetryFailure`, `RetryRejected`, `Accept`, `GiveUp` are a tick with due rows;
  `ScanReceipts`, `PollStatus`, `UpdateTargets`, `Settle`, `LoopEnds`, `FinalizeReceipts` one
  without. A second element of `Ticks` is a tick that was abandoned and runs on.
- `rd[m][d]` is what `reticulumd` knows of a recipient; `RdProgress` moves it. `handed`,
  `lost`, `sends` are history: admissions per recipient, admissions the hub did not
  record, dispatches.
- `ReceiptCallback`, `FailureRead`/`FailureWrite`, `RetryCallback`, `PropagationCallback`,
  `DropCallback`, `AttemptCallback` are the adapter's callbacks.
- `CrashAndRestart` drops the ticks and applies the repair of startup (1929-1998).

### ZmqDataPlane

- A caller is idle, counted (counters raised, request not yet in its lane) or waiting.
  `Request`, `Enqueue`, `Refused` (lane full: counters taken back), `GiveUp` (timeout).
- The actor receives (`TakeSend`, `TakeControl`, `EndOfLanes`), starts (`OpenSession`,
  `UseSession`, `ShutdownAtOnce`) and performs (`Perform`). A request that expired in its
  lane is answered and counted when it is taken. `session` is the identity under which the
  open session runs, `announced` what `reticulumd` has activated.
- `Second` ages waiting requests; `Drop` is the dropped handle, which leaves a shutdown
  request if the lane has room.

### InboundEvents

- Messages are numbered in order of arrival and differ by kind: chat, command, demanding (a
  command that errs until something outside it holds), refused, malformed, garbled.
- `reticulumd`: `arrived` is its history, `oldest` the first event the stream still has,
  `runtime` and `base` tell its restarts apart. History survives a restart, the stream does
  not.
- Worker: `phase` goes idle, (recover), decode, handle; `item` and `stage` follow one
  envelope through record, act and mark. `cursor` is in memory, `savedCursor` in the store.
- Hub: `events` with the marks, `rows` the message list, `acts` what messages led to; each
  of the first two with its stored copy, written after the one in memory and able to fail.
- `Crash` loses memory, `DaemonRestart` the stream, `OtherEvent` pushes marks out,
  `ChangeReady` makes demanding commands possible or not.

### ChecklistCommands

- `store` is a record of tables, a table a function from keys to rows. Keys the code makes
  with UUIDs are the number of the command.
- A worker goes idle, reading (`Read`, one table per step: `read` says how many), loaded,
  applied; `before[w]` is the snapshot and `core[w]` the snapshot with the command applied,
  one action per command (`CreateNew`, `AddRow`, ...). `SaveDelta` writes the difference.
- An HTTP worker saves an accepted command only; the radio worker saves a rejected one too,
  with what it had done before the error (5102-5110). `Fail` is an error of the store or a
  crash before the save.
- `join` is saved although it only reads: `checklist_command` keeps back only
  `template.list` and `template.get`.
- `overlapped` is history: some worker has saved a snapshot another save had made stale.

### KillSwitch

- A request is a thread: `pc[c]` is its operation, its stage and its access to the store.
  An access is three steps: the look at the lock on persistence (`PassLock`), the opening of
  the file, which creates it when it is gone, and the work (`FindVacant`, `CommitSetting`,
  `RequirePin`, `PeekAtPin`, `CountRows`, `PersistRow`, ...). Each can fail (`AccessFails`).
- `mode`, `arms` and `authAge` are `KillSwitchRuntimeState`; the two arms move together.
  Every kill switch request ends with the status (`LookAtMode`, `PeekAtPin`,
  `ResetWithoutPin` or `ExpireAuthorization`), which may change them again.
- The worker marks the runtime, stops the child, wipes, deletes files and ends
  (`WorkerMarksStopping` to `WorkerEnds`). An access that opened the store before the wipe
  goes on with a file nobody sees any more (`conn = "orphan"`).
- A setup commits seven settings one by one. `failures` holds the ages of failed attempts,
  `lock` what is left of the lockout; `Tick` is time.
- `PersistDirectly` stands for the writers that never ask: commands and the event cursor.
- `Restart` keeps the store and the files and forgets everything else.
- `early` is history: the requests that were under way when the lock was closed.

### TakService and TakPromise

- `holder` is who has the mutex. A caller enqueues and flushes under it; the worker flushes,
  then sends a ping and a keepalive when they are due, all in one hold of the mutex.
- `SendFails` may follow the arrival of the payload; a payload leaves the queue only after
  `SendSucceeds`. `arrived` is history: first arrivals of messages.
- `TakPromise` knows what is owed, what has arrived and whether the service is open. The
  mapping takes the queue without a probe at its head for what is owed (a probe is only ever
  put in an empty queue, so it can be nowhere else) and `running /\ ~stop` for open; `Promise`
  is `TakPromise`'s specification under it.

### MissionRegistry

- The worker, its snapshot and its save are those of `ChecklistCommands`, with other tables
  and commands; a step of `Read` takes several tables where no save is due in between.
- `AllRequests` are the commands with the arguments that decide their course; `valid` stands
  for the checks of contents that end a command in the middle. `Keep` is an argument that was
  not given.
- `traffic` chooses what the store holds at first and which commands come, so that a run has
  the parts of the registry one beside the other instead of multiplied.
- `first` is the team's `mission_uid`, which is whichever link comes first out of a hash set.
- `spilled` is history: what a refused message had changed was saved.

## 3. Runs

States are distinct states; all runs finish in less than three minutes with two workers.

| Run | Question | Instance | Expected |
|---|---|---|---|
| `OutboundTargeted` | Is a message to one recipient retried within its budget, settled on evidence and settled at all? | 1 message, 1 recipient, all errors and reports, 1 crash, budgets 2/3/4/3; 56 thousand states | holds |
| `OutboundFanout` | Does a partial acceptance, fallback or crash hand a recipient the message twice? | 1 message, 2 recipients, 1 crash; 3.4 million | holds |
| `OutboundCallbacks` | Can a callback at any point leave a row in progress and scheduled, or in progress for ever? | every callback, 1 call; 182 thousand | holds |
| `OutboundPartialSettled` | Is a scheduled row still queued? | 2 recipients | violated |
| `DataPlaneQueues` | Are counters, expiry, identity and shutdown right, and does every call return? | 2 callers, lanes of 1, burst 2, deadlines of 1 s; or 2 identities and errors at every call; 279 thousand | holds |
| `InboundFaults` | Is a message passed over, handled twice or relayed unstored through faults? | 3 messages, stream of 2, 3 marks, 1 fault, 1 crash; 4.3 million | holds |
| `InboundLiveness` | Does the cursor pass every message, and in order? | 2 messages, stream of 1, 1 mark, 1 restart, 1 fault; 188 thousand | holds |
| `InboundMalformed` | Does a malformed message hold up the cursor? | 2 messages, stream of 1 | violated |
| `ChecklistWorkers` | What do overlapping commands keep? | 2 lists, 2 rows, 1 HTTP and 1 radio worker, 16 requests, 3 commands; 2.8 million | holds |
| `KillSwitch` | Who can break the lock of a purge, and does the purge end? | 2 clients in 5 scenarios, every failure, restarts; 299 thousand | holds |
| `TakDelivery` | Does what was accepted arrive, in order, however sends fail? | 2 callers, 3 messages, queue of 2, 2 stops or starts; 42 thousand | holds |
| `MissionRegistry` | What do overlapping registry commands keep? | 8 traffics of 4 to 6 commands, 1 HTTP and 1 radio worker, 3 commands; 727 thousand | holds |

### What the properties say

*Outbound.* `RetryBudget`: dispatches of a targeted message stay within the attempts of its
kind and of the rate limit, however errors alternate. `SettledIsBacked`: delivered or
propagated only on a report of `reticulumd`. `DeliveredIsFinal`.
`NoDuplicateWithoutLoss`: a recipient is handed over twice only if the hub never learned of
the first. `NoResendAfterAcceptance`. `InProgressNotScheduled`: no attempt in progress is also
scheduled. `InProgressResolves` and `EventuallySettled`: attempts end, messages settle.
`DueRowsStayOpen` and `AwaitedReceiptIsPollable` are the halves of the invariant behind the
proofs; no run lists them.

*Data plane.* `CountersAreExact` relates depths and totals to the lanes before the handle is
dropped. `StartedIsAwaited`: the actor starts nothing for a caller that has given up.
`ServedUnderRegisteredIdentity`. `EveryCallReturns`: also a control request behind a steady
flow of sends, without the help of its timeout. `DroppedActorStops`.

*Inbound.* `NothingPassedOver` is about the stored cursor as much as the one in memory.
`HandledOnce` excludes messages whose mark was evicted and those cut off in the middle of
their handling: for these the code handles again, at least once. `RelayedIsStored`,
`HandledInOrder`, `EverythingTaken` (provided demanding commands are possible in the end).

*Checklists.* `ListsAgree` (counts, cells, columns and tasks fit each other) is claimed until
a stale snapshot is saved. `AddedRowsAreAnnounced` and `ChangesAreKept` are claimed under every
overlap.

*Kill switch.* `ArmedWhileAuthorized`: no crossing of requests leaves an authorization without
arms. `FailuresLockOut`. `OnlyOldRequestsBreakTheLock`: but for the worker, a restart and one
status older than the purge, nobody ends the mode that locks persistence.
`NothingPersistedUnderTheLock`: what is written during or after a purge is written by a request
that asked before it, or by one that never asks. `PurgeEnds`.

*TAK.* `Promise` is the refinement. `AtMostOneProbe`: while the server is away the queue holds
one ping or keepalive at most. `BacklogIsReported`: between calls a queue that is not empty goes
with an error in the status.

*Registry.* `MissionsFormATree` and `RemovedByItsCommandOnly` are claimed under every overlap,
`RelationsAgree` and `OneActiveSnapshot` until a stale snapshot is saved. `RelationsAgree` is
the conjunction of `AssetsAgree` (an assignment lists the assets it is linked to; they, and the
owners of assets, exist), `MembersAgree` (a member lists the clients it is linked to, its team
exists, and nothing is linked to a member that is gone) and `TeamsAgree` (a team names the
missions it is linked to, the first among them, and nothing is linked to a team that is gone);
the last is given up once a refused message was saved (`spilled`). The tree holds under
overlaps for a reason no comment gives: a save writes every mission of its snapshot, so what is
stored afterwards is the tree that was checked, at the price of the other worker's update. The
mutation `DeltaOfChanges` (write only what changed) breaks it.

### Bounds and why they suffice

- Outbound: attempts saturate at `AttemptCap` (past every budget), dispatches at `SendCap`
  (past the sum of budgets). The code's constants (124-138) are larger; what counts is that
  each limit is reached, that those of the kinds differ, and that the rate limit's can be
  entered from any of them. Two recipients give every split of a batch. One crash may fall
  between any two steps; a second meets only rows the repair has brought into the form of
  an earlier state. Rows do not influence each other except through the order of a tick's
  list, so one message is enough for the properties, all of which are about one row.
- Data plane: lanes of one element are full as soon as anything waits; the burst of 2 (32 in
  the code) separates "at the limit" from "past it"; deadlines keep the order of the code's
  (grace of the actor not later than that of the caller). The totals wrap at `Modulus`.
- Inbound: three messages and a stream of two give a gap with something on each side; three
  marks among which one is evicted by any other event. Faults, crashes and restarts occur
  once each and at any point.
- Checklists: the second of two overlapping commands starts from what the first left or from
  before it; the third makes the state both find. `AllSorts` has each command, each way to
  be refused, and two lists that want the same rows.
- Kill switch: two requests at a time show every crossing of two threads with the worker; the
  scenarios leave out pairs that share no state. One worker at a time is a bound of the model
  (`BeginPurge`). Lifetimes of 1 and 2 ticks and a limit of 2 failures keep the order of 120 s,
  300 s and 5.
- TAK: three messages for a queue of two give full, refused and drained in every order. Stops
  and starts are bounded so that the service may in the end stay open or closed.
- Registry: as for checklists; the traffics put together the commands that share tables, and
  three missions are the smallest cycle that no single command closes on its own.

Deadlock is checked in the runs of the data plane and of outbound delivery. The inbound,
checklist and registry models stop when their bounds are used up and the TAK model when the
service has been shut down, so their runs switch it off.

## 4. Fairness

- Outbound: `WF(TickStep(t))`, as the worker's loop (2913-2963) starts a tick at every poll
  interval and each blocking call of a tick ends by the timeout of the data plane; weak
  fairness of the three deadlines, as time passes. Nothing is assumed of clients, of the
  adapter or of what `reticulumd` reports: `EventuallySettled` holds if it never answers.
- Data plane: `WF(ActorStep)` for the thread of the actor, and weak fairness of a counted
  caller's next step (`Refused` or `Enqueue`: no wait between counting and `try_send`). No
  fairness for `GiveUp` or `Second`: `EveryCallReturns` must not be owed to the timeout.
- Inbound: `WF(Tick)`, the loop of 3079-3176, which survives every error of a tick.
- Checklists and registry: none; only safety is stated.
- Kill switch: `WF(Worker)`, a thread of its own whose calls all return. Nothing is assumed of
  requests.
- TAK: `WF(Worker)`, `WF(Flushed)` and `WF(SendSucceeds \/ SendFails)`: threads run and a send
  returns (sockets are opened anew for each payload). `SF(SendSucceeds)`: a server that is tried
  for ever answers now and then; without it nothing can be promised. That a shutdown ends is not
  claimed: the mutex is not fair, and callers could keep it from the worker.

## 5. Proofs

All theorems hold for every value of the constants that meets the assumptions of the
specification (named `ASSUME`s: ranges of the constants and disjointness of markers).

| Module | Theorem | Of | Extra assumption |
|---|---|---|---|
| `OutboundDeliveryProofs` | `TypeCorrect` | `TypeOK` | |
| | `NeverInProgressAndScheduled` | `InProgressNotScheduled` | |
| `OutboundSettledProofs` | `DueRowsAlwaysOpen` | `DueRowsStayOpen` | `OneTickOnly` |
| | `AwaitedReceiptsArePollable` | `AwaitedReceiptIsPollable` | `OneTickOnly` |
| | `DeliveredStaysDelivered` | `DeliveredIsFinal` | `OneTickOnly` |
| | `AcceptedIsNotResent` | `NoResendAfterAcceptance` | `OneTickOnly` |
| | `DuplicatesComeOfLoss` | `NoDuplicateWithoutLoss` | `OneTickOnly` |
| | `ReportsAreBacked` | `SettledIsBacked` | `OneTickOnly` |
| | `RetriesWithinBudget` | `RetryBudget` | `OneTickOnly`, `RoomToCount` |
| `ZmqDataPlaneProofs` | `TypeCorrect` | `TypeOK` | |
| | `CountersExact` | `CountersAreExact` | |
| | `IdentityServed` | `ServedUnderRegisteredIdentity` | |
| | `OnlyAwaitedStarts` | `StartedIsAwaited` | |
| `InboundEventsProofs` | `TypeCorrect` | `TypeOK` | |
| | `NothingIsPassedOver` | `NothingPassedOver` | |
| | `RelaysAreStored` | `RelayedIsStored` | |
| | `CommandsKeepOrder` | `HandledInOrder` | |
| | `MessagesAreHandledOnce` | `HandledOnce` | |
| `ChecklistProofs` | `TypeCorrect` | `TypeOK` | `Rows` is finite (in `ChecklistCommands`) |
| | `RowsAreAnnounced` | `AddedRowsAreAnnounced` | same |
| | `LogIsKept` | `ChangesAreKept` | same |
| | `TablesAgree` | `ListsAgree` | same |
| `KillSwitchProofs` | `TypeCorrect` | `TypeOK` | |
| | `ArmsBackAuthorization` | `ArmedWhileAuthorized` | |
| | `EnoughFailuresLockOut` | `FailuresLockOut` | |
| | `PurgeKeepsItsMode` | `OnlyOldRequestsBreakTheLock` | |
| | `LockKeepsWritersOut` | `NothingPersistedUnderTheLock` | |
| `TakServiceProofs` | `TypeCorrect` | `TypeOK` | |
| | `OneProbeWaits` | `AtMostOneProbe` | |
| | `BacklogShows` | `BacklogIsReported` | |
| | `KeepsPromise` | `Delivery!Safety`, the safety part of `Promise` | |
| `MissionRegistryProofs` | `MissionsStayATree` | `MissionsFormATree` | |
| | `RowsAreNotSweptAway` | `RemovedByItsCommandOnly` | |
| | `ReportsStayUnique` | `OneActiveSnapshot` | |
| | `TypeCorrect` | `TypeOK` | |
| | `RelationsStayInAgreement` | `RelationsAgree` | |

`OneTickOnly` says that there are no adapter callbacks and at most one tick. It is needed: a
tick dispatches from clones and marks rows without a second look, so a second tick, or a
callback that settles a row meanwhile, breaks the first four properties. This is the hazard at
15319. It leaves out neither crashes nor lost answers nor any order of reports.
`NeverInProgressAndScheduled` needs no such assumption. `RoomToCount` says that the counter of
attempts, which the model lets saturate at `AttemptCap`, can reach every limit, as it does in the
runs and as the code's integers do. `DeadlineAssumption` of the data plane (a caller waits no
less than the actor, transport-rns 2030-2034) is what `OnlyAwaitedStarts` rests on. `StartsAgree` of the
registry says that the store a traffic starts from agrees with itself, as one does that
overlapping saves have not touched; TLC evaluates it for the traffics of the run.

**Outbound.** `TypeOK` is inductive; `InProgressNotScheduled` is inductive beside it, as every
function that schedules a row ends its attempt in the same write. For the others
`SettledInv` is `TypeOK`, no failure callback under way, `DueRowsStayOpen` and
`AwaitedReceiptIsPollable`: a dispatch may only reopen a row that is open, hence the first;
the verdicts of a poll may only settle a row whose receipt is awaited, hence the second.
The claims about whole lives of a message need more. `ClonesInv`: the clones a tick has in hand
equal their rows until it writes them, the answer it is about to apply speaks of the recipients
that were asked, and a row that may be dispatched still has unanswered recipients for its
destinations. `HandedInv`: whoever was handed over without a loss is not among the
destinations of any later attempt, which only become fewer, or is in the answer the tick is about to
apply. `BackedInv`: what rows, clones and polls hold for a success,
`reticulumd` reports too, for it never takes a success back unless the recipient is handed over
anew. `BudgetInv`: the attempts counted in a row, and the one in progress, cover its dispatches;
while it is queued one more fits its budget; and the flag that widens the budget is set as long
as the error that widens it stands.

**Data plane.** `Shape` is the type invariant without signs: the depths are integers.
`Owned`: a caller waits for one request at most, and every named request in a lane or in hand is
that of a waiting caller. `Sorted`: each lane holds requests of its kind. `Accounts`: each depth is
the length of its lane plus the callers that have counted and not yet enqueued
(their number is a cardinality, hence `IsFiniteSet(Callers)`), and enqueued is completed, failed,
expired, in lanes and in hand, modulo the wrap: no depth goes below zero, since a refusal
takes back what its own caller had counted. `Abandoned`: a request whose caller has gone has
expired by the clock of the actor. `SessionFits`: an open session is one of the identity
registered last, which is the one announced.

**Inbound.** `IInv` strengthens `NothingPassedOver` with: cursors lie within what `reticulumd`
has sent (`CursorsInRange`); everything up to a cursor was taken (`CursorBehind`), and
everything between the cursor and the end of the batch is in the batch, already taken or
still to be handled (`TickCovers`); a mark belongs to a message that was taken
(`MarkedIsTaken`), which is why skipping a marked message is safe; each stage of the handler
knows what the ones before it did (`StageKnows`); the item is the first of those left
(`ItemIsFirst`); messages that have not arrived have no effects (`NotYet`); the store has
no row that memory lacks (`MemoryHasAll`). `OnceSoFar` stands on top for `HandledOnce`.

**Checklists.** `IInv` is `TypeOK` with: no change in the store is younger than the commands
that came (`NumbersAreNew`), so a command's new changes have keys of their own; the changes
in a worker's snapshot are still in the store, unchanged, and its core follows from it
(`SnapshotsOfTheLog`), so writing an old snapshot back alters no change; and the rows of
every snapshot are announced in the store (`SnapshotsAreAnnounced`), so resurrecting one
adds no unannounced row. Each table operator has its lemma, each command its case. For
`ListsAgree`, `AgreeInv` says, as long as no stale snapshot was saved, that what a worker that is
not behind has read is in the store, table for table (`UpToDate`), and that its core agrees when its
command has been applied, accepted or not. The agreement is proved as `Agree`: every row
is where it belongs (`Placed`), and the counts are right list by list, so that a command has to
account for its own list only.

**Kill switch.** `IInv` is `TypeOK` and `ArmedWhileAuthorized` with: each thread is at a stage
of its operation (`Threads`); under the lock, whoever has passed it is `early`
(`PassedBefore`), from which the two action properties follow step by step; and the ages of
failures fall from the oldest to the newest, the newest of a full window being no older than
what has gone of the lock (`LockFollowsFailures`), from which counting the recent ones gives
`FailuresLockOut`.

**TAK.** `IInv` is `TypeOK` and `BacklogIsReported` with `ProbesOnEmpty` (the worker probes
with an empty queue only) and `ProbesFirst`: a probe in the queue is its first payload, since a round
whose flush failed ends without probes. That the service keeps its promise is proved for the safety
part: `Untouched` (a message that is still to come is neither queued nor arrived) beside `IInv`,
then each action is shown to accept, to deliver, to open or close, or to stutter under the mapping.

**Registry.** `RegistryInv` says of the store and of every core and snapshot that the missions
form a tree and that rows have the parts the commands look at (`Sound`), and of an applied
command that its core still has every row of its snapshot that the command may not remove
(`KeptBy`). A save then leaves the missions of the core together with missions added meanwhile
(`Delta`), and both being trees closed under parents, so is their union. `ReportInv` adds that
as long as nothing has overlapped, the snapshots a worker has read are those of the store
(`InStep`), for which it counts the tables that were read (`Counted`). `TypeInv` adds
`TypeOK`: a worker with a command to carry out is `Ready`, and each command then makes tables whose
rows and keys are of the right form (`Typed`). `RelationInv` adds that a worker that is not behind
holds what is in the store and that what it has made of it agrees (`UpToDate`): each command is
shown to keep the agreement (`Related`), a refused one that of assets and members only. A worker that
is not behind then saves its whole core, and whoever has read anything by then is behind.

**Only model-checked.** Liveness (`InProgressResolves`, `EventuallySettled`, `EveryCallReturns`,
`DroppedActorStops`, `EverythingTaken`, `PurgeEnds`) and the fairness of the refinement `Promise`:
the prover does not handle fairness and ENABLED. Every invariant and every action property that
a passing run checks is a theorem too. The outbound ones other than `TypeOK` and
`InProgressNotScheduled` are proved for `OneTickOnly`; the run `OutboundCallbacks` checks what
is claimed with a callback.

## 6. What the checks found

Two runs end in a violation, each with an entry under `findings`:

- `OutboundPartialSettled`: a batch was accepted in part, the rejected recipients wait for
  their retry, and the receipts of the admitted ones settle the row: the retry never runs.
- `InboundMalformed`: after a gap, a malformed message in the retained history ends every
  recovery, so the cursor stays where it is.

Seen while modelling, without a run of its own. Outbound and inbound:

- When every recipient of a batch is rejected, the stored receipt list is empty, and an empty
  list is read as one target under the message's own id (11646, 15740). Once a later attempt is
  accepted, that target, which nobody reports on, keeps the poll from completing: the message
  fails for a receipt timeout although every recipient has reported.
- After the propagation and the attempt callback a row is queued, not scheduled and not in
  progress; only another callback moves it on (13536).
- Receipts are polled and expired only by a tick that found no row due (15274), so a steady flow
  of due rows would hold both up.
- A refused text is answered and never marked: delivered again it is refused again (4222).

Checklists and registry:

- Overlapping commands lose updates, and deleted rows come back (rch-core 10747, `lib.rs`
  23891-23936, 24872-24918, 5075-5110): this is why some properties stop at `overlapped`.
- An assignment of a row that is deleted before its list outlives both (rch-core 8628); the
  test `checklist_delete_cleans_assignment_links_like_python_cascade` (15958) deletes the list
  with its rows.
- A refused message is saved with its partial effects: links of a team that does not exist
  (7337), a team and a member made for a status snapshot that is then refused (7198), the default
  mission of a refused log entry (6945). A refused request is not.
- A status snapshot whose time to live has passed blocks its callsign and cannot be deleted by
  it (7113, 7288). An `eam_uid` that is given may overwrite the snapshot of another member.
- Deleting a member removes the skills of its identity, those of another member with the same
  identity, too (7483). Links to deleted places stay.
- A team's `mission_uid` is the first of its links in the order of a hash set (7337, 9660) and
  may change with any link.
- `checklist.create.online` of an existing list is announced again.
- Without `task_uid`, `checklist.task.row.add` announces the last task of the table, which
  need not be the one it added (not modelled: the model's rows always have an id).
- The cache of command results is not part of the snapshots commands work on, so a
  repeated command id is carried out again (rch-core 2354, 4338).
- `/pause` takes a client out of the generic group relay (4749) and of the roster (17061), but
  not out of the messages of its topics (14420, 16998), whatever "stop receiving group
  relays" in the help text (5364) is meant to cover.

Kill switch:

- A status that read the store before a purge wiped it, and writes after, sets the mode to idle
  in the middle of the purge: the lock on persistence is gone (18164-18236). This is the one
  exception of `OnlyOldRequestsBreakTheLock`.
- Writers that asked before the purge, and those that never ask, create the database anew
  after it was erased, with the rows they write.
- A setup that fails between the settings of the PIN leaves a record every later request
  answers with an error, setup included (`auth.rs` 328); two setups at a time both succeed in spite
  of the check at 14237.
- When the files cannot be deleted after the wipe, the switch has failed and the PIN is gone:
  the purge cannot be repeated before a new setup.
- A start during a purge brings the child back (25514-25531: the mark and the act are two steps).
  A restart forgets an unfinished purge. The announce worker ends for good at the first shutdown
  (2876). An error in the shutdown of the data plane leaves the child running (3366).

## 7. What is left out of the modelled components

- Outbound: the cooldown after a direct delivery, inline dispatch (production always defers
  it), the pause at shutdown, `max_attempts` and creator metadata, the budget of polls (any
  subset of rows is polled), the order of persisted writes (persistence is atomic with the
  write in memory), the report `deferred` (never set in production), errors of a tick outside
  its dispatch. "partially_accepted" is folded into "accepted". Recipients of a message are
  fixed when it is admitted. The larger budget of REM commands is a parameter no run fills.
- Data plane: the actors that serve a single request for functions without a handle
  (1638-1887, 1982-2028), latency statistics, the announce receiver, the RPC client;
  restarts of `reticulumd`. The actor's look at both lanes is one step.
- Inbound: announces, attachments, what single commands do to roster and topics, the
  cooldown after a rate limit, the pause at shutdown, RPC polling (tests only), the caps of
  the message list (500) and of the history page (100). Telemetry messages are commands.
- Checklists: templates, columns one by one, skill requirements and asset links (they
  behave as assignments), import (an online create with rows), styles and notes, audit
  events and delivery to listeners. A refusal for lack of rights is a refusal without
  effect. All due times pass at one moment.

- Kill switch: the texts and counts of its status, the two arms one by one, the choice of the
  files to delete, the two configuration files apart, a second worker beside the first.
- Throttling: API key and remote password use the same counter under keys of their own;
  sessions and hashing are left out.
- Runtime control: the shutdown of the process and the pauses of its workers.
- TAK: counters, the lengths of the back-off (`worker_timing.rs`), the building of payloads,
  the inbound service, the process around it.
- Registry: skill requirements of tasks, rights and authorization, the team scope of REM
  commands, the contents of rows, events and the audit log. Zones and markers are handled
  alike and are both places. An order of the missions a team names is not kept.

### Not modelled

Telemetry, topic diagnostics, the protocol, identity and profile crates, the migration and the
seed, the HTTP routes, the desktop application and the web interface have no protocol or are
clients of what is modelled; `PROJECT.json` says so one by one. Topics and the relay, the team
routing and the broadcast with its WebSocket sessions would each deserve a module: they are in
the plan. The bridge (`r3akt-rch-bridge`) keeps its keys in memory and inserts them before it
sends: an error ends its process, and after the restart it sends again what it had sent.

## 8. Plan

Done: `OutboundDelivery`, `ZmqDataPlane`, `InboundEvents`, `ChecklistCommands`, `KillSwitch`,
`TakService` with `TakPromise`, `MissionRegistry`.

Next, in this order:

1. `TopicRelay` with the team routing as operators: recipients against a reference definition,
   subscriptions that change between the selection and the dispatch.
2. `DeliveryPromise`, the abstract specification of outbound delivery (a message is open, handed
   over, confirmed or given up, per recipient), with `OutboundDelivery` shown to implement it under a
   refinement mapping, first by TLC and then by proof for `OneTickOnly`.
3. The order of persisted rows (15984): a row's writes in memory and in the store as two
   steps with two writers and a restart.
4. Broadcast and WebSocket sessions.
5. A composition of the outbound tick with the lanes of the data plane: an expired dispatch
   is never performed later.

Proofs: the settled rows of outbound delivery with callbacks that spare the rows in hand, in
place of `OneTickOnly`; the refinement of `DeliveryPromise`; and the safety of each module above
with the module.
