------------------------------ MODULE KillSwitch ------------------------------
(***************************************************************************)
(* The kill switch of the hub: two arms and a PIN unlock a purge, a worker *)
(* erases the store, the caches and the files, and from its start to its   *)
(* end nothing may be persisted.  The PIN comes from the first-run setup,  *)
(* which commits its settings one after the other; wrong PINs are counted  *)
(* and lock the client out; the runtime that the purge stops is the one    *)
(* the control requests start and stop.                                    *)
(*                                                                         *)
(* Every request is a thread: it keeps its place in pc, and each lock it   *)
(* takes and each time it opens the store is a step of its own.            *)
(***************************************************************************)
EXTENDS Naturals, FiniteSets, Sequences

CONSTANTS
  Clients,       \* requests that can be under way at the same time
  Scenarios,     \* which operations each client sends: one of these functions
  Nil,           \* no PIN, no authorization
  TTL,           \* KILL_SWITCH_AUTHORIZATION_TTL_MS, in ticks
  Lockout,       \* AUTH_FAILURE_WINDOW_MS and AUTH_LOCKOUT_MS, in ticks
  FailureLimit,  \* AUTH_FAILURE_LIMIT
  Crashes        \* whether the process may be killed and started again

Operations == {"setup", "identity", "arm", "disarm", "authorize", "guess",
               "mistype", "purge", "status", "write", "command", "start", "stop"}

ASSUME KillSwitchAssumption ==
  /\ IsFiniteSet(Clients)
  /\ Scenarios \subseteq [Clients -> SUBSET Operations]
  /\ Nil \notin Nat \cup {"sha256", "argon2id"}
  /\ TTL \in Nat \ {0} /\ Lockout \in Nat \ {0}
  /\ FailureLimit \in Nat \ {0}
  /\ Crashes \in BOOLEAN

VARIABLES
  mode, arms, authAge,         \* KillSwitchRuntimeState; both arms or not both
  worker,                      \* where the purge worker is
  file, settings, pin, rows,   \* the database file and what it holds
  artifacts,                   \* configuration and identity files
  control, child,              \* runtime_control and the managed reticulumd
  failures, lock,              \* throttle of the clients' address
  pc, ops,                     \* the requests; the scenario
  early                        \* history: requests older than the lock

killSwitch == <<mode, arms, authAge>>
store == <<file, settings, pin, rows>>
runtime == <<control, child>>
throttle == <<failures, lock>>
vars == <<mode, arms, authAge, worker, file, settings, pin, rows, artifacts,
          control, child, failures, lock, pc, ops, early>>

--------------------------------------------------------------------------
(* The store. *)

PasswordRecord == {"pwSalt", "pwHash", "pwCreated"}
PinRecord == {"pinSalt", "pinHash", "pinCreated"}
Settings == {"hub"} \cup PasswordRecord \cup PinRecord
Artifacts == {"config", "identity"}
\* The hash of a PIN: of this release, or salted as earlier ones did.
Hashes == {"argon2id", "sha256"}

PinEnrolled == PinRecord \subseteq settings
NoPin == PinRecord \cap settings = {}

\* Settings in the order setup commits them; the first of each record is
\* written by the call that looks at the lock and opens the store.
AfterSetting ==
  [hub |-> "pwSalt", pwSalt |-> "pwHash", pwHash |-> "pwCreated",
   pwCreated |-> "pinSalt", pinSalt |-> "pinHash", pinHash |-> "pinCreated",
   pinCreated |-> "report"]
FirstOfCall == {"hub", "pwSalt", "pinSalt"}

\* ensure_kill_switch_persistence_unlocked refuses.
PersistenceLocked == mode \in {"Deleting", "Completed"}

AuthActive == authAge # Nil /\ authAge <= TTL

--------------------------------------------------------------------------
(* Requests: where they are, and their access to the store. *)

Idle == [op |-> "none", at |-> "none", conn |-> "none"]

GuardedStages == {"vacant", "require", "peek", "preview", "census", "report",
                  "row"} \cup FirstOfCall

At(c, stage) == pc[c].at = stage
GoTo(c, stage) ==
  pc' = [pc EXCEPT ![c].at = stage, ![c].conn = "none"]
Reply(c) ==
  /\ pc' = [pc EXCEPT ![c] = Idle]
  /\ early' = early \ {c}

\* Mutant of PassLock: persistence is unlocked again when the purge has ended.
PassLockAfterPurge(c) ==
  /\ pc[c].at \in GuardedStages /\ pc[c].conn = "none"
  /\ IF mode = "Deleting"
     THEN Reply(c)
     ELSE pc' = [pc EXCEPT ![c].conn = "checked"] /\ UNCHANGED early
  /\ UNCHANGED <<ops, killSwitch, worker, store, artifacts, runtime, throttle>>

\* with_core_store_write and with_required_core_store_write: look at the lock,
\* then open the store, which creates the file when there is none.
PassLock(c) ==
  /\ pc[c].at \in GuardedStages /\ pc[c].conn = "none"
  /\ IF PersistenceLocked
     THEN Reply(c)
     ELSE pc' = [pc EXCEPT ![c].conn = "checked"] /\ UNCHANGED early
  /\ UNCHANGED <<ops, killSwitch, worker, store, artifacts, runtime, throttle>>

Opens(c, stage) == At(c, stage) /\ pc[c].conn = "checked" /\ file' = TRUE

\* Opening, reading, writing a setting or a file fails: the request ends.
AccessFails(c) ==
  /\ \/ pc[c].conn # "none"
     \/ pc[c].at \in {"configs", "newIdentity", "spawn", "kill"}
  /\ Reply(c)
  /\ UNCHANGED <<ops, killSwitch, worker, store, artifacts, runtime, throttle>>

\* The stage a request starts with.
Entry(op) ==
  CASE op = "setup" -> "vacant"
    [] op = "identity" -> "report"
    [] op \in {"arm", "disarm", "purge"} -> "require"
    [] op \in {"authorize", "guess", "mistype"} -> "admit"
    [] op = "status" -> "look"
    [] op = "write" -> "row"
    [] op = "command" -> "direct"
    [] op = "start" -> "markRunning"
    [] op = "stop" -> "markStopping"

\* A request comes in; authorize brings the right PIN, guess a wrong one and
\* mistype something that is not six digits.
Request(c, op) ==
  /\ At(c, "none")
  /\ op \in ops[c]
  /\ pc' = [pc EXCEPT ![c] = [op |-> op, at |-> Entry(op), conn |-> "none"]]
  /\ UNCHANGED <<ops, killSwitch, worker, store, artifacts, runtime, throttle, early>>

--------------------------------------------------------------------------
(* First-run setup. *)

\* load_kill_switch_pin: a PIN, or half of one, ends the request.
FindVacant(c) ==
  /\ Opens(c, "vacant")
  /\ IF NoPin THEN GoTo(c, "configs") /\ UNCHANGED early ELSE Reply(c)
  /\ UNCHANGED <<ops, killSwitch, worker, settings, pin, rows, artifacts, runtime,
                 throttle>>

WriteConfigs(c) ==
  /\ At(c, "configs")
  /\ artifacts' = artifacts \cup {"config"}
  /\ GoTo(c, "hub")
  /\ UNCHANGED <<ops, killSwitch, worker, store, runtime, throttle, early>>

\* set_setting_value, a transaction of its own.  A connection whose file was
\* deleted under it writes to no store.  Setup enrolls a PIN of its own, and
\* authorize stores the PIN it has verified again when its hash is an old one.
CommitSetting(c) ==
  LET setting == pc[c].at
      next == IF setting = "pinCreated" /\ pc[c].op = "authorize"
              THEN "clear" ELSE AfterSetting[setting]
      conn == IF next \in FirstOfCall \cup {"clear", "report"} THEN "none"
              ELSE IF pc[c].conn = "checked" THEN "open" ELSE pc[c].conn
  IN
  /\ setting \in Settings
  /\ pc[c].conn # "none"
  /\ IF pc[c].conn = "orphan"
     THEN UNCHANGED <<file, settings, pin>>
     ELSE /\ file' = TRUE
          /\ settings' = settings \cup {setting}
          /\ pin' = IF setting = "pinHash" THEN "argon2id" ELSE pin
  /\ pc' = [pc EXCEPT ![c] = [op |-> pc[c].op, at |-> next, conn |-> conn]]
  /\ UNCHANGED <<ops, killSwitch, worker, rows, artifacts, runtime, throttle, early>>

\* first_run_setup_status_payload reads PIN, password and hub name; half a
\* record ends it.
Report(c) ==
  /\ Opens(c, "report")
  /\ IF \E record \in {PinRecord, PasswordRecord} :
          ~(record \subseteq settings) /\ record \cap settings # {}
     THEN Reply(c)
     ELSE GoTo(c, "newIdentity") /\ UNCHANGED early
  /\ UNCHANGED <<ops, killSwitch, worker, settings, pin, rows, artifacts, runtime,
                 throttle>>

\* ensure_reticulum_identity_status writes an identity when there is none.
EnsureIdentity(c) ==
  /\ At(c, "newIdentity")
  /\ artifacts' = artifacts \cup {"identity"}
  /\ Reply(c)
  /\ UNCHANGED <<ops, killSwitch, worker, store, runtime, throttle>>

--------------------------------------------------------------------------
(* Arms, authorization and its throttle. *)

\* require_kill_switch_pin, and for authorize the comparison with the PIN.
RequirePin(c) ==
  LET next == CASE pc[c].op \in {"arm", "disarm"} -> "set"
                [] pc[c].op = "purge" -> "preview"
                [] pc[c].op = "guess" -> "fail"
                [] pc[c].op = "authorize" ->
                     IF pin = "argon2id" THEN "clear" ELSE "pinSalt"
  IN
  /\ Opens(c, "require")
  /\ IF PinEnrolled THEN GoTo(c, next) /\ UNCHANGED early ELSE Reply(c)
  /\ UNCHANGED <<ops, killSwitch, worker, settings, pin, rows, artifacts, runtime,
                 throttle>>

\* Mutant of ArmsSet: moving the arms leaves the authorization alone.
ArmsSetAlone(engaged) ==
  /\ arms' = engaged
  /\ mode' = IF engaged THEN "Armed" ELSE "Idle"
  /\ UNCHANGED authAge

\* The switch after arming or disarming.
ArmsSet(engaged) ==
  /\ arms' = engaged
  /\ authAge' = Nil
  /\ mode' = IF engaged THEN "Armed" ELSE "Idle"

\* Mutant of SetArms: the arms can be moved during a purge.
SetArmsAnyTime(c) ==
  /\ At(c, "set") /\ pc[c].op \in {"arm", "disarm"}
  /\ ArmsSet(pc[c].op = "arm")
  /\ GoTo(c, "look")
  /\ UNCHANGED <<ops, worker, store, artifacts, runtime, throttle, early>>

SetArms(c) ==
  /\ At(c, "set") /\ pc[c].op \in {"arm", "disarm"}
  /\ IF PersistenceLocked
     THEN Reply(c) /\ UNCHANGED killSwitch
     ELSE /\ ArmsSet(pc[c].op = "arm")
          /\ GoTo(c, "look")
          /\ UNCHANGED early
  /\ UNCHANGED <<ops, worker, store, artifacts, runtime, throttle>>

\* ensure_auth_attempt_allowed; a PIN of another form than six digits is a
\* failure without a look at the store.
AdmitAttempt(c) ==
  /\ At(c, "admit")
  /\ IF lock > 0
     THEN Reply(c)
     ELSE GoTo(c, IF pc[c].op = "mistype" THEN "fail" ELSE "require") /\ UNCHANGED early
  /\ UNCHANGED <<ops, killSwitch, worker, store, artifacts, runtime, throttle>>

\* Mutant of RecordFailure: the lock comes one failure late.
RecordFailureLate(c) ==
  /\ At(c, "fail")
  /\ failures' = Append(failures, 0)
  /\ lock' = IF Len(failures) >= FailureLimit THEN Lockout ELSE lock
  /\ Reply(c)
  /\ UNCHANGED <<ops, killSwitch, worker, store, artifacts, runtime>>

RecordFailure(c) ==
  /\ At(c, "fail")
  /\ failures' = Append(failures, 0)
  /\ lock' = IF Len(failures') >= FailureLimit THEN Lockout ELSE lock
  /\ Reply(c)
  /\ UNCHANGED <<ops, killSwitch, worker, store, artifacts, runtime>>

ClearFailures(c) ==
  /\ At(c, "clear")
  /\ failures' = << >> /\ lock' = 0
  /\ GoTo(c, "set")
  /\ UNCHANGED <<ops, killSwitch, worker, store, artifacts, runtime, early>>

SetAuthorized(c) ==
  /\ At(c, "set") /\ pc[c].op = "authorize"
  /\ IF ~arms \/ PersistenceLocked
     THEN Reply(c) /\ UNCHANGED killSwitch
     ELSE /\ mode' = "Authorized" /\ authAge' = 0 /\ UNCHANGED arms
          /\ GoTo(c, "look")
          /\ UNCHANGED early
  /\ UNCHANGED <<ops, worker, store, artifacts, runtime, throttle>>

--------------------------------------------------------------------------
(* The status every kill switch request ends with. *)

LookAtMode(c) ==
  /\ At(c, "look")
  /\ IF mode \in {"Deleting", "Completed", "Failed"}
     THEN Reply(c) ELSE GoTo(c, "peek") /\ UNCHANGED early
  /\ UNCHANGED <<ops, killSwitch, worker, store, artifacts, runtime, throttle>>

PeekAtPin(c) ==
  /\ Opens(c, "peek")
  /\ IF PinEnrolled THEN GoTo(c, "census") /\ UNCHANGED early
     ELSE IF NoPin THEN GoTo(c, "reset") /\ UNCHANGED early
     ELSE Reply(c)
  /\ UNCHANGED <<ops, killSwitch, worker, settings, pin, rows, artifacts, runtime,
                 throttle>>

\* Without a PIN the switch is idle, whatever it has become meanwhile.
ResetWithoutPin(c) ==
  /\ At(c, "reset")
  /\ arms' = FALSE /\ authAge' = Nil /\ mode' = "Idle"
  /\ Reply(c)
  /\ UNCHANGED <<ops, worker, store, artifacts, runtime, throttle>>

\* database_wipe_preview counts rows.
CountRows(c) ==
  /\ \/ Opens(c, "preview") /\ GoTo(c, "begin")
     \/ Opens(c, "census") /\ GoTo(c, "expire")
  /\ UNCHANGED <<ops, killSwitch, worker, settings, pin, rows, artifacts, runtime,
                 throttle, early>>

ExpireAuthorization(c) ==
  /\ At(c, "expire")
  /\ IF mode = "Authorized" /\ ~AuthActive
     THEN authAge' = Nil /\ mode' = IF arms THEN "Armed" ELSE "Idle"
     ELSE UNCHANGED <<authAge, mode>>
  /\ Reply(c)
  /\ UNCHANGED <<ops, arms, worker, store, artifacts, runtime, throttle>>

--------------------------------------------------------------------------
(* The purge. *)

UnderWay == {c \in Clients : ~At(c, "none")}

\* Bound: one worker at a time.  A second needs the first to lose its mode and
\* a new setup, arming and authorization before it ends.
BeginPurge(c) ==
  /\ At(c, "begin")
  /\ IF mode = "Deleting"
     THEN GoTo(c, "look") /\ UNCHANGED <<mode, worker, early>>
     ELSE IF ~arms \/ ~AuthActive
     THEN Reply(c) /\ UNCHANGED <<mode, worker>>
     ELSE /\ worker = "none"
          /\ mode' = "Deleting"
          /\ worker' = "mark"
          /\ early' = UnderWay \ {c}
          /\ GoTo(c, "look")
  /\ UNCHANGED <<ops, arms, authAge, store, artifacts, runtime, throttle>>

\* stop_runtime_services of the worker: mark, then stop the child.
WorkerMarksStopping ==
  /\ worker = "mark"
  /\ control' = "stopping"
  /\ worker' = "kill"
  /\ UNCHANGED <<ops, killSwitch, store, artifacts, child, throttle, pc, early>>

\* Mutant of WorkerStopsChild: the worker waits for a child to stop.
WorkerStopsRunningChild ==
  /\ worker = "kill" /\ child = "up"
  /\ \/ child' = "down" /\ worker' = "wipe"
     \/ worker' = "failed" /\ UNCHANGED child
  /\ UNCHANGED <<ops, killSwitch, store, artifacts, control, throttle, pc, early>>

WorkerStopsChild ==
  /\ worker = "kill"
  /\ \/ child' = "down" /\ worker' = "wipe"
     \/ worker' = "failed" /\ UNCHANGED child
  /\ UNCHANGED <<ops, killSwitch, store, artifacts, control, throttle, pc, early>>

\* wipe_database: one transaction over every table, then VACUUM, which may
\* fail by itself; the caches are cleared with it.
WorkerWipes ==
  /\ worker = "wipe"
  /\ file' = TRUE
  /\ \/ settings' = {} /\ pin' = Nil /\ rows' = {} /\ worker' \in {"delete", "failed"}
     \/ worker' = "failed" /\ UNCHANGED <<settings, pin, rows>>
  /\ UNCHANGED <<ops, killSwitch, artifacts, runtime, throttle, pc, early>>

\* delete_kill_switch_artifacts goes on after a file it cannot delete.
WorkerDeletes ==
  /\ worker = "delete"
  /\ \E kept \in SUBSET artifacts, keepsFile \in BOOLEAN :
       /\ artifacts' = kept
       /\ file' = (file /\ keepsFile)
       /\ worker' = IF kept = {} /\ ~file' THEN "done" ELSE "failed"
  /\ IF file' THEN UNCHANGED <<settings, pin, rows, pc>>
     ELSE /\ settings' = {} /\ pin' = Nil /\ rows' = {}
          /\ pc' = [c \in Clients |->
                     IF pc[c].conn = "open"
                     THEN [op |-> pc[c].op, at |-> pc[c].at, conn |-> "orphan"]
                     ELSE pc[c]]
  /\ UNCHANGED <<ops, killSwitch, runtime, throttle, early>>

WorkerEnds ==
  /\ worker \in {"done", "failed"}
  /\ IF worker = "done"
     THEN /\ mode' = "Completed" /\ authAge' = Nil
          /\ early' = IF mode = "Deleting" THEN early ELSE UnderWay
     ELSE mode' = "Failed" /\ UNCHANGED <<authAge, early>>
  /\ worker' = "none"
  /\ UNCHANGED <<ops, arms, store, artifacts, runtime, throttle, pc>>

Worker == WorkerMarksStopping \/ WorkerStopsChild \/ WorkerWipes
          \/ WorkerDeletes \/ WorkerEnds

--------------------------------------------------------------------------
(* Everyone else who writes, and the runtime control. *)

\* A handler or a worker that persists a row under the lock's rules.
PersistRow(c) ==
  /\ Opens(c, "row")
  /\ rows' = rows \cup {"new"}
  /\ Reply(c)
  /\ UNCHANGED <<ops, killSwitch, worker, settings, pin, artifacts, runtime, throttle>>

\* Mission and checklist commands and the event cursor open the store without
\* a look at the lock.
PersistDirectly(c) ==
  /\ At(c, "direct")
  /\ file' = TRUE /\ rows' = rows \cup {"new"}
  /\ Reply(c)
  /\ UNCHANGED <<ops, killSwitch, worker, settings, pin, artifacts, runtime, throttle>>

MarkControl(c) ==
  /\ \/ At(c, "markRunning") /\ control' = "running" /\ GoTo(c, "spawn")
     \/ At(c, "markStopping") /\ control' = "stopping" /\ GoTo(c, "kill")
  /\ UNCHANGED <<ops, killSwitch, worker, store, artifacts, child, throttle, early>>

MoveChild(c) ==
  /\ \/ At(c, "spawn") /\ child' = "up"
     \/ At(c, "kill") /\ child' = "down"
  /\ Reply(c)
  /\ UNCHANGED <<ops, killSwitch, worker, store, artifacts, control, throttle>>

--------------------------------------------------------------------------
(* Time, the process and the specification.  The failures, oldest first, are
   dropped here when they leave the window and not at the next attempt: nobody
   looks at them before. *)

\* Ages of failures a tick later, without those that have left the window.
Past(ages) == Cardinality({i \in DOMAIN ages : ages[i] >= Lockout})
Aged(ages) == [i \in 1 .. Len(ages) - Past(ages) |-> ages[i + Past(ages)] + 1]

\* Mutant of Tick: the time left is not saturated.
TickUnsaturated ==
  /\ authAge # Nil \/ lock > 0 \/ failures # << >>
  /\ authAge' = IF authAge # Nil THEN authAge + 1 ELSE authAge
  /\ lock' = IF lock > 0 THEN lock - 1 ELSE 0
  /\ failures' = << >>
  /\ UNCHANGED <<ops, mode, arms, worker, store, artifacts, runtime, pc, early>>

Tick ==
  /\ \/ authAge # Nil /\ authAge <= TTL
     \/ lock > 0
     \/ failures # << >>
  /\ authAge' = IF authAge # Nil /\ authAge <= TTL THEN authAge + 1 ELSE authAge
  /\ lock' = IF lock > 0 THEN lock - 1 ELSE 0
  /\ failures' = Aged(failures)
  /\ UNCHANGED <<ops, mode, arms, worker, store, artifacts, runtime, pc, early>>

\* The process is killed and started again: from_sqlite_path opens the store,
\* and nothing remembers a purge that was under way.
Restart ==
  /\ Crashes
  /\ mode' = "Idle" /\ arms' = FALSE /\ authAge' = Nil
  /\ worker' = "none" /\ file' = TRUE
  /\ control' = "running" /\ child' = "up"
  /\ failures' = << >> /\ lock' = 0
  /\ pc' = [c \in Clients |-> Idle] /\ early' = {}
  /\ UNCHANGED <<ops, settings, pin, rows, artifacts>>

Serve(c) ==
  \/ PassLock(c) \/ AccessFails(c)
  \/ FindVacant(c) \/ WriteConfigs(c) \/ CommitSetting(c)
  \/ Report(c) \/ EnsureIdentity(c)
  \/ RequirePin(c) \/ SetArms(c)
  \/ AdmitAttempt(c) \/ RecordFailure(c) \/ ClearFailures(c) \/ SetAuthorized(c)
  \/ LookAtMode(c) \/ PeekAtPin(c) \/ ResetWithoutPin(c)
  \/ CountRows(c) \/ ExpireAuthorization(c) \/ BeginPurge(c)
  \/ PersistRow(c) \/ PersistDirectly(c) \/ MarkControl(c) \/ MoveChild(c)

\* A new hub, one whose PIN an earlier release enrolled, or one set up by c.
Init ==
  /\ mode = "Idle" /\ arms = FALSE /\ authAge = Nil /\ worker = "none"
  /\ file = TRUE
  /\ \/ settings = {} /\ pin = Nil
     \/ /\ settings = Settings
        /\ pin \in Hashes
  /\ rows = {"stored"}
  /\ artifacts = Artifacts
  /\ control = "running" /\ child = "up"
  /\ failures = << >> /\ lock = 0
  /\ pc = [c \in Clients |-> Idle] /\ ops \in Scenarios /\ early = {}

Next ==
  \/ \E c \in Clients, op \in Operations : Request(c, op)
  \/ \E c \in Clients : Serve(c)
  \/ Worker
  \/ Tick
  \/ Restart

Spec == Init /\ [][Next]_vars

\* The worker's thread runs.
FairSpec == Spec /\ WF_vars(Worker)

--------------------------------------------------------------------------
(* Properties. *)

Stages == GuardedStages \cup Settings
  \cup {"none", "configs", "newIdentity", "set", "admit", "fail", "clear", "look",
        "reset", "begin", "expire", "direct", "markRunning", "markStopping",
        "spawn", "kill"}

\* Every variable has its type.
TypeOK ==
  /\ mode \in {"Idle", "Armed", "Authorized", "Deleting", "Completed", "Failed"}
  /\ arms \in BOOLEAN /\ authAge \in 0 .. TTL + 1 \cup {Nil}
  /\ worker \in {"none", "mark", "kill", "wipe", "delete", "done", "failed"}
  /\ file \in BOOLEAN /\ settings \subseteq Settings
  /\ pin \in Hashes \cup {Nil}
  /\ rows \subseteq {"stored", "new"}
  /\ artifacts \subseteq Artifacts
  /\ control \in {"running", "stopping"} /\ child \in {"up", "down"}
  /\ failures \in Seq(Nat) /\ lock \in 0 .. Lockout
  /\ pc \in [Clients -> [op : Operations \cup {"none"}, at : Stages,
                         conn : {"none", "checked", "open", "orphan"}]]
  /\ ops \in Scenarios /\ early \subseteq Clients

\* An authorization never outlives the arms it was given for: whatever requests
\* cross, a switch that is authorized or erasing has both arms engaged
\* (kill_switch_arm takes the authorization back, the status reset does too).
ArmedWhileAuthorized ==
  authAge # Nil \/ mode \in {"Authorized", "Deleting"} => arms

\* From the start of a purge on only its worker ends the mode that locks
\* persistence; the one request that can is a status older than the purge,
\* which read that there is no PIN after the worker had erased it.
OnlyOldRequestsBreakTheLock ==
  [][mode = "Deleting" /\ mode' # "Deleting"
     => worker' = "none" \/ \E c \in early : At(c, "reset")]_vars

\* While a purge runs and after it, nothing is written any more except by the
\* writers that do not look at the lock and by requests that looked before it
\* was closed (ensure_kill_switch_persistence_unlocked).
NothingPersistedUnderTheLock ==
  [][/\ PersistenceLocked /\ mode' = mode /\ worker' = worker
     /\ \/ ~(rows' \subseteq rows) \/ ~(settings' \subseteq settings)
        \/ ~(artifacts' \subseteq artifacts) \/ (file' /\ ~file)
     => \E c \in Clients : /\ pc'[c] # pc[c]
                           /\ c \in early \/ pc[c].op = "command"]_vars

\* "Five failures in five minutes cause a five-minute lockout": as many failures
\* as the limit, none of them as old as the window, mean a lock that holds.
FailuresLockOut ==
  Cardinality({i \in DOMAIN failures : failures[i] < Lockout}) >= FailureLimit
    => lock > 0

\* A purge ends, completed or failed, whatever fails on the way.
PurgeEnds == mode = "Deleting" ~> mode # "Deleting"

==============================================================================
