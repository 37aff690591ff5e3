-------------------------- MODULE KillSwitchProofs --------------------------
(***************************************************************************)
(* Theorems about KillSwitch for every number of clients, every scenario   *)
(* and every limit: type correctness, that an authorization needs the      *)
(* arms, that enough failures lock out, that a purge loses its mode only   *)
(* to a status older than itself, and that nothing is persisted under the  *)
(* lock but by those who looked before it was closed or do not look.       *)
(*                                                                         *)
(* The inductive invariant IInv adds to the types and to                   *)
(* ArmedWhileAuthorized: a client without a request has no connection, and *)
(* each place is reached only by the requests it is for (Threads); while   *)
(* persistence is locked, a request that has passed the lock, writes files *)
(* or is about to reset the mode is older than the lock (PassedBefore);    *)
(* the last failure is the youngest, and from the limit on the lock lasts  *)
(* as long as that failure stays in the window (LockFollowsFailures).      *)
(***************************************************************************)
EXTENDS KillSwitch, FiniteSetTheorems, TLAPS

Thread == [op : Operations \cup {"none"}, at : Stages,
           conn : {"none", "checked", "open", "orphan"}]

Threads ==
  \A c \in Clients :
    /\ pc[c].at = "none" => pc[c].conn = "none"
    /\ pc[c].at = "direct" => pc[c].op = "command"
    /\ pc[c].at = "admit" => pc[c].op \in {"authorize", "guess", "mistype"}
    /\ pc[c].at = "require" =>
         pc[c].op \in {"arm", "disarm", "authorize", "guess", "purge"}

\* The places from which a request writes, or resets the mode.
Passed(c) ==
  pc[c].conn # "none" \/ pc[c].at \in {"configs", "newIdentity", "reset"}

PassedBefore == PersistenceLocked => \A c \in Clients : Passed(c) => c \in early

LockFollowsFailures ==
  LET n == Len(failures) IN
  /\ \A i \in 1 .. n : failures[n] <= failures[i]
  /\ n >= FailureLimit => lock + failures[n] >= Lockout

IInv == TypeOK /\ ArmedWhileAuthorized /\ Threads /\ PassedBefore /\ LockFollowsFailures

-----------------------------------------------------------------------------
(* Threads.                                                                *)

LEMMA GoToMoves ==
  ASSUME TypeOK, NEW c \in Clients, NEW stage \in Stages, GoTo(c, stage)
  PROVE  /\ pc' \in [Clients -> Thread]
         /\ pc'[c].at = stage /\ pc'[c].conn = "none" /\ pc'[c].op = pc[c].op
         /\ \A d \in Clients \ {c} : pc'[d] = pc[d]
BY DEF GoTo, TypeOK, Thread

LEMMA IdleIsThread == Idle \in Thread
BY DEF Idle, Thread, Stages

LEMMA ReplyEnds ==
  ASSUME TypeOK, NEW c \in Clients, Reply(c)
  PROVE  /\ pc' \in [Clients -> Thread]
         /\ pc'[c] = Idle
         /\ \A d \in Clients \ {c} : pc'[d] = pc[d]
         /\ early' = early \ {c} /\ early' \subseteq Clients
BY IdleIsThread DEF Reply, TypeOK, Thread

-----------------------------------------------------------------------------
(* Type correctness.                                                       *)

\* The stages are told apart as strings; those a request can reach are these.
LEMMA EntryIsStage == \A op \in Operations : Entry(op) \in Stages \ {"none"}
BY DEF Operations, Entry, Stages, GuardedStages

LEMMA NextSettingIsStage ==
  \A s \in Settings : AfterSetting[s] \in Stages \ {"none"} /\ AfterSetting[s] # s
BY DEF Settings, PasswordRecord, PinRecord, AfterSetting, Stages, GuardedStages, FirstOfCall

\* The failures that are left after a tick.
LEMMA AgedFailures ==
  ASSUME NEW ages \in Seq(Nat)
  PROVE  /\ Past(ages) \in 0 .. Len(ages)
         /\ Aged(ages) \in Seq(Nat) /\ Len(Aged(ages)) = Len(ages) - Past(ages)
         /\ \A i \in 1 .. Len(Aged(ages)) : Aged(ages)[i] = ages[i + Past(ages)] + 1
<1> DEFINE old == {i \in DOMAIN ages : ages[i] >= Lockout}
<1>1. Len(ages) \in Nat /\ DOMAIN ages = 1 .. Len(ages)
  OBVIOUS
<1>2. IsFiniteSet(1 .. Len(ages)) /\ Cardinality(1 .. Len(ages)) = Len(ages)
  <2>1. 1 \in Int /\ Len(ages) \in Int
    BY <1>1
  <2>2. /\ IsFiniteSet(1 .. Len(ages))
        /\ Cardinality(1 .. Len(ages)) = IF 1 > Len(ages) THEN 0 ELSE Len(ages) - 1 + 1
    BY <2>1, FS_Interval
  <2>3. QED
    BY <1>1, <2>2
<1>3. old \subseteq 1 .. Len(ages)
  BY <1>1
<1>4. IsFiniteSet(old) /\ Cardinality(old) <= Len(ages)
  BY <1>2, <1>3, FS_Subset
<1>5. Past(ages) = Cardinality(old)
  BY DEF Past
<1>6. Past(ages) \in 0 .. Len(ages)
  <2>1. Cardinality(old) \in Nat
    BY <1>4, FS_CardinalityType
  <2>2. QED
    BY <1>1, <1>4, <1>5, <2>1
<1>7. \A i \in 1 .. Len(ages) - Past(ages) : i + Past(ages) \in 1 .. Len(ages)
  BY <1>1, <1>6
<1>8. /\ Aged(ages) \in Seq(Nat) /\ Len(Aged(ages)) = Len(ages) - Past(ages)
      /\ \A i \in 1 .. Len(Aged(ages)) : Aged(ages)[i] = ages[i + Past(ages)] + 1
  <2> DEFINE past == Past(ages)
  <2>1. Aged(ages) = [i \in 1 .. Len(ages) - past |-> ages[i + past] + 1]
    BY DEF Aged
  <2>2. past \in Nat /\ Len(ages) - past \in Nat
    BY <1>1, <1>6
  <2>3. \A i \in 1 .. Len(ages) - past : ages[i + past] + 1 \in Nat
    BY <1>1, <1>7
  <2>4. Aged(ages) \in [1 .. Len(ages) - past -> Nat]
    BY <2>1, <2>3
  <2>5. Aged(ages) \in Seq(Nat) /\ Len(Aged(ages)) = Len(ages) - past
    BY <2>2, <2>4
  <2>6. QED
    BY <2>1, <2>5
<1>9. QED
  BY <1>6, <1>8

\* The literals that stand for stages, for the provers.
LEMMA StagesListed ==
  {"none", "vacant", "require", "peek", "preview", "census", "report", "row",
   "hub", "pwSalt", "pwHash", "pwCreated", "pinSalt", "pinHash", "pinCreated",
   "configs", "newIdentity", "set", "admit", "fail", "clear", "look", "reset",
   "begin", "expire", "direct", "markRunning", "markStopping", "spawn", "kill"}
    = Stages
BY DEF Stages, GuardedStages, FirstOfCall, Settings, PasswordRecord, PinRecord

LEMMA TypeStep ==
  ASSUME TypeOK, Threads, [Next]_vars
  PROVE  TypeOK'
<1> USE KillSwitchAssumption, GoToMoves, ReplyEnds, IdleIsThread, StagesListed, AgedFailures DEF Thread, killSwitch, store, runtime, throttle
<1>1. ASSUME NEW c \in Clients, NEW op \in Operations, Request(c, op)
      PROVE  TypeOK'
  BY <1>1, EntryIsStage DEF Request, TypeOK
<1>2. ASSUME NEW c \in Clients, PassLock(c)
      PROVE  TypeOK'
  BY <1>2 DEF PassLock, TypeOK, Opens, At
<1>3. ASSUME NEW c \in Clients, AccessFails(c)
      PROVE  TypeOK'
  BY <1>3 DEF AccessFails, TypeOK, Opens, At
<1>4. ASSUME NEW c \in Clients, FindVacant(c)
      PROVE  TypeOK'
  BY <1>4 DEF FindVacant, TypeOK, Opens, At
<1>5. ASSUME NEW c \in Clients, WriteConfigs(c)
      PROVE  TypeOK'
  BY <1>5 DEF WriteConfigs, TypeOK, Opens, At, Artifacts
<1>6. ASSUME NEW c \in Clients, CommitSetting(c)
      PROVE  TypeOK'
  <2> DEFINE s == pc[c].at
             next == IF s = "pinCreated" /\ pc[c].op = "authorize"
                     THEN "clear" ELSE AfterSetting[s]
  <2>1. s \in Settings /\ next \in Stages
    BY <1>6, NextSettingIsStage DEF CommitSetting
  <2>2. pc[c].conn \in {"checked", "open", "orphan"}
    BY <1>6 DEF CommitSetting, TypeOK
  <2>3. pc' \in [Clients -> Thread]
    <3> DEFINE conn == IF next \in FirstOfCall \cup {"clear", "report"} THEN "none"
                       ELSE IF pc[c].conn = "checked" THEN "open" ELSE pc[c].conn
    <3>1. pc' = [pc EXCEPT ![c] = [op |-> pc[c].op, at |-> next, conn |-> conn]]
      BY <1>6 DEF CommitSetting
    <3>2. conn \in {"none", "checked", "open", "orphan"}
      BY <2>2
    <3> HIDE DEF next, conn
    <3>3. [op |-> pc[c].op, at |-> next, conn |-> conn] \in Thread
      BY <2>1, <3>2 DEF TypeOK
    <3>4. QED
      BY <3>1, <3>3 DEF TypeOK
  <2>4. /\ file' \in BOOLEAN /\ settings' \subseteq Settings
        /\ pin' \in Hashes \cup {Nil}
    <3>1. CASE pc[c].conn = "orphan"
      BY <1>6, <3>1 DEF CommitSetting, TypeOK
    <3>2. CASE pc[c].conn # "orphan"
      <4>1. /\ file' = TRUE /\ settings' = settings \cup {s}
            /\ pin' \in {"argon2id", pin}
        BY <1>6, <3>2 DEF CommitSetting
      <4>2. QED
        BY <2>1, <4>1 DEF TypeOK, Hashes
    <3>3. QED
      BY <3>1, <3>2
  <2>5. QED
    BY <1>6, <2>3, <2>4 DEF CommitSetting, TypeOK
<1>7. ASSUME NEW c \in Clients, Report(c)
      PROVE  TypeOK'
  BY <1>7 DEF Report, TypeOK, Opens, At
<1>8. ASSUME NEW c \in Clients, EnsureIdentity(c)
      PROVE  TypeOK'
  BY <1>8 DEF EnsureIdentity, TypeOK, Opens, At, Artifacts
<1>9. ASSUME NEW c \in Clients, RequirePin(c)
      PROVE  TypeOK'
  BY <1>9 DEF RequirePin, TypeOK, Opens, At, Threads
<1>10. ASSUME NEW c \in Clients, SetArms(c)
      PROVE  TypeOK'
  <2>1. CASE PersistenceLocked
    BY <1>10, <2>1 DEF SetArms, TypeOK
  <2>2. CASE ~PersistenceLocked
    <3>1. /\ arms' \in BOOLEAN /\ authAge' = Nil /\ mode' \in {"Armed", "Idle"}
      BY <1>10, <2>2 DEF SetArms, ArmsSet
    <3>2. GoTo(c, "look") /\ UNCHANGED early
      BY <1>10, <2>2 DEF SetArms
    <3>3. pc' \in [Clients -> Thread]
      BY <3>2
    <3>4. QED
      BY <1>10, <3>1, <3>2, <3>3 DEF SetArms, TypeOK
  <2>3. QED
    BY <2>1, <2>2
<1>11. ASSUME NEW c \in Clients, AdmitAttempt(c)
      PROVE  TypeOK'
  BY <1>11 DEF AdmitAttempt, TypeOK, Opens, At
<1>12. ASSUME NEW c \in Clients, RecordFailure(c)
      PROVE  TypeOK'
  BY <1>12 DEF RecordFailure, TypeOK, Opens, At
<1>13. ASSUME NEW c \in Clients, ClearFailures(c)
      PROVE  TypeOK'
  BY <1>13 DEF ClearFailures, TypeOK, Opens, At
<1>14. ASSUME NEW c \in Clients, SetAuthorized(c)
      PROVE  TypeOK'
  BY <1>14 DEF SetAuthorized, TypeOK, Opens, At
<1>15. ASSUME NEW c \in Clients, LookAtMode(c)
      PROVE  TypeOK'
  BY <1>15 DEF LookAtMode, TypeOK, Opens, At
<1>16. ASSUME NEW c \in Clients, PeekAtPin(c)
      PROVE  TypeOK'
  BY <1>16 DEF PeekAtPin, TypeOK, Opens, At
<1>17. ASSUME NEW c \in Clients, ResetWithoutPin(c)
      PROVE  TypeOK'
  BY <1>17 DEF ResetWithoutPin, TypeOK, Opens, At
<1>18. ASSUME NEW c \in Clients, CountRows(c)
      PROVE  TypeOK'
  <2>1. file' = TRUE /\ (GoTo(c, "begin") \/ GoTo(c, "expire"))
    BY <1>18 DEF CountRows, Opens
  <2>2. pc' \in [Clients -> Thread]
    BY <2>1
  <2>3. QED
    BY <1>18, <2>1, <2>2 DEF CountRows, TypeOK
<1>19. ASSUME NEW c \in Clients, ExpireAuthorization(c)
      PROVE  TypeOK'
  BY <1>19 DEF ExpireAuthorization, TypeOK, Opens, At
<1>20. ASSUME NEW c \in Clients, BeginPurge(c)
      PROVE  TypeOK'
  BY <1>20 DEF BeginPurge, TypeOK, Opens, At, UnderWay
<1>21. ASSUME NEW c \in Clients, PersistRow(c)
      PROVE  TypeOK'
  BY <1>21 DEF PersistRow, TypeOK, Opens, At
<1>22. ASSUME NEW c \in Clients, PersistDirectly(c)
      PROVE  TypeOK'
  BY <1>22 DEF PersistDirectly, TypeOK, Opens, At
<1>23. ASSUME NEW c \in Clients, MarkControl(c)
      PROVE  TypeOK'
  BY <1>23 DEF MarkControl, TypeOK, Opens, At
<1>24. ASSUME NEW c \in Clients, MoveChild(c)
      PROVE  TypeOK'
  BY <1>24 DEF MoveChild, TypeOK, Opens, At
<1>25. CASE WorkerMarksStopping
  BY <1>25 DEF WorkerMarksStopping, TypeOK
<1>26. CASE WorkerStopsChild
  BY <1>26 DEF WorkerStopsChild, TypeOK
<1>27. CASE WorkerWipes
  BY <1>27 DEF WorkerWipes, TypeOK
<1>28. CASE WorkerDeletes
  <2>1. PICK kept \in SUBSET artifacts, keepsFile \in BOOLEAN :
          artifacts' = kept /\ file' = (file /\ keepsFile)
    BY <1>28 DEF WorkerDeletes
  <2>2. artifacts' \subseteq Artifacts /\ file' \in BOOLEAN
    BY <2>1 DEF TypeOK
  <2>3. worker' \in {"done", "failed"}
    BY <1>28 DEF WorkerDeletes
  <2>4. settings' \subseteq Settings /\ pin' \in Hashes \cup {Nil}
        /\ rows' \subseteq {"stored", "new"}
    BY <1>28, ZenonT(60) DEF WorkerDeletes, TypeOK
  <2>5. pc' \in [Clients -> Thread]
    BY <1>28 DEF WorkerDeletes, TypeOK
  <2>6. QED
    BY <1>28, <2>2, <2>3, <2>4, <2>5 DEF WorkerDeletes, TypeOK
<1>29. CASE WorkerEnds
  BY <1>29 DEF WorkerEnds, TypeOK, UnderWay
<1>30. CASE Tick
  BY <1>30 DEF Tick, TypeOK
<1>31. CASE Restart
  <2>1. pc' \in [Clients -> Thread] /\ early' \subseteq Clients
    BY <1>31 DEF Restart
  <2>2. failures' \in Seq(Nat) /\ lock' \in 0 .. Lockout
    BY <1>31 DEF Restart
  <2>3. QED
    BY <1>31, <2>1, <2>2 DEF Restart, TypeOK
<1>32. CASE UNCHANGED vars
  BY <1>32 DEF vars, TypeOK
<1>33. QED
  BY <1>1, <1>2, <1>3, <1>4, <1>5, <1>6, <1>7, <1>8, <1>9, <1>10, <1>11,
     <1>12, <1>13, <1>14, <1>15, <1>16, <1>17, <1>18, <1>19, <1>20, <1>21,
     <1>22, <1>23, <1>24, <1>25, <1>26, <1>27, <1>28, <1>29, <1>30, <1>31,
     <1>32
  DEF Next, Serve, Worker

-----------------------------------------------------------------------------
(* Threads, the switch and the throttle.                                   *)

LEMMA EntryFits ==
  \A op \in Operations :
    /\ Entry(op) = "direct" => op = "command"
    /\ Entry(op) = "admit" => op \in {"authorize", "guess", "mistype"}
    /\ Entry(op) = "require" => op \in {"arm", "disarm", "purge"}
    /\ Entry(op) \notin {"configs", "newIdentity", "reset"}
BY ZenonT(60) DEF Operations, Entry

LEMMA ThreadsStep ==
  ASSUME TypeOK, Threads, [Next]_vars
  PROVE  Threads'
<1> USE GoToMoves, ReplyEnds, StagesListed DEF Threads
<1>1. ASSUME NEW c \in Clients, NEW op \in Operations, Request(c, op)
      PROVE  Threads'
  <2>1. pc' = [pc EXCEPT ![c] = [op |-> op, at |-> Entry(op), conn |-> "none"]]
    BY <1>1 DEF Request
  <2>2. QED
    BY <2>1, EntryFits DEF TypeOK
<1>2. ASSUME NEW c \in Clients, PassLock(c)
      PROVE  Threads'
  <2>1. CASE PersistenceLocked
    BY <1>2, <2>1 DEF PassLock, Idle
  <2>2. CASE ~PersistenceLocked
    BY <1>2, <2>2, SMTT(30) DEF PassLock, TypeOK, GuardedStages, FirstOfCall
  <2>3. QED
    BY <2>1, <2>2
<1>3. ASSUME NEW c \in Clients, AccessFails(c)
      PROVE  Threads'
  BY <1>3 DEF AccessFails, TypeOK, At, Opens, Idle
<1>4. ASSUME NEW c \in Clients, FindVacant(c)
      PROVE  Threads'
  BY <1>4, SMTT(30) DEF FindVacant, TypeOK, At, Opens, Idle
<1>5. ASSUME NEW c \in Clients, WriteConfigs(c)
      PROVE  Threads'
  BY <1>5 DEF WriteConfigs, TypeOK, At, Opens, Idle
<1>6. ASSUME NEW c \in Clients, CommitSetting(c)
      PROVE  Threads'
  BY <1>6 DEF CommitSetting, TypeOK, At, Opens, Idle, AfterSetting, Settings, PasswordRecord, PinRecord
<1>7. ASSUME NEW c \in Clients, Report(c)
      PROVE  Threads'
  BY <1>7 DEF Report, TypeOK, At, Opens, Idle
<1>8. ASSUME NEW c \in Clients, EnsureIdentity(c)
      PROVE  Threads'
  BY <1>8 DEF EnsureIdentity, TypeOK, At, Opens, Idle
<1>9. ASSUME NEW c \in Clients, RequirePin(c)
      PROVE  Threads'
  BY <1>9 DEF RequirePin, TypeOK, At, Opens, Idle
<1>10. ASSUME NEW c \in Clients, SetArms(c)
      PROVE  Threads'
  BY <1>10 DEF SetArms, TypeOK, At, Opens, Idle
<1>11. ASSUME NEW c \in Clients, AdmitAttempt(c)
      PROVE  Threads'
  <2>1. \/ Reply(c)
        \/ GoTo(c, "fail")
        \/ pc[c].op # "mistype" /\ GoTo(c, "require")
    BY <1>11 DEF AdmitAttempt
  <2>2. pc[c].op \in {"authorize", "guess", "mistype"}
    BY <1>11 DEF AdmitAttempt, At
  <2>3. QED
    BY <2>1, <2>2 DEF Idle
<1>12. ASSUME NEW c \in Clients, RecordFailure(c)
      PROVE  Threads'
  BY <1>12 DEF RecordFailure, TypeOK, At, Opens, Idle
<1>13. ASSUME NEW c \in Clients, ClearFailures(c)
      PROVE  Threads'
  BY <1>13 DEF ClearFailures, TypeOK, At, Opens, Idle
<1>14. ASSUME NEW c \in Clients, SetAuthorized(c)
      PROVE  Threads'
  BY <1>14, SMTT(30) DEF SetAuthorized, TypeOK, At, Opens, Idle
<1>15. ASSUME NEW c \in Clients, LookAtMode(c)
      PROVE  Threads'
  BY <1>15 DEF LookAtMode, TypeOK, At, Opens, Idle
<1>16. ASSUME NEW c \in Clients, PeekAtPin(c)
      PROVE  Threads'
  BY <1>16 DEF PeekAtPin, TypeOK, At, Opens, Idle
<1>17. ASSUME NEW c \in Clients, ResetWithoutPin(c)
      PROVE  Threads'
  BY <1>17 DEF ResetWithoutPin, TypeOK, At, Opens, Idle
<1>18. ASSUME NEW c \in Clients, CountRows(c)
      PROVE  Threads'
  BY <1>18, SMTT(30) DEF CountRows, TypeOK, At, Opens, Idle
<1>19. ASSUME NEW c \in Clients, ExpireAuthorization(c)
      PROVE  Threads'
  BY <1>19 DEF ExpireAuthorization, TypeOK, At, Opens, Idle
<1>20. ASSUME NEW c \in Clients, BeginPurge(c)
      PROVE  Threads'
  BY <1>20 DEF BeginPurge, TypeOK, At, Opens, Idle
<1>21. ASSUME NEW c \in Clients, PersistRow(c)
      PROVE  Threads'
  BY <1>21 DEF PersistRow, TypeOK, At, Opens, Idle
<1>22. ASSUME NEW c \in Clients, PersistDirectly(c)
      PROVE  Threads'
  BY <1>22 DEF PersistDirectly, TypeOK, At, Opens, Idle
<1>23. ASSUME NEW c \in Clients, MarkControl(c)
      PROVE  Threads'
  <2>1. GoTo(c, "spawn") \/ GoTo(c, "kill")
    BY <1>23 DEF MarkControl
  <2>2. QED
    BY <2>1
<1>24. ASSUME NEW c \in Clients, MoveChild(c)
      PROVE  Threads'
  <2>1. Reply(c)
    BY <1>24 DEF MoveChild
  <2>2. QED
    BY <2>1 DEF Idle
<1>25. CASE WorkerMarksStopping
  BY <1>25 DEF WorkerMarksStopping
<1>26. CASE WorkerStopsChild
  BY <1>26 DEF WorkerStopsChild
<1>27. CASE WorkerWipes
  BY <1>27 DEF WorkerWipes
<1>28. CASE WorkerDeletes
  BY <1>28 DEF WorkerDeletes, TypeOK
<1>29. CASE WorkerEnds
  BY <1>29 DEF WorkerEnds
<1>30. CASE Tick
  BY <1>30 DEF Tick
<1>31. CASE Restart
  BY <1>31 DEF Restart, TypeOK, At, Opens, Idle
<1>32. CASE UNCHANGED vars
  BY <1>32 DEF vars
<1>33. QED
  BY <1>1, <1>2, <1>3, <1>4, <1>5, <1>6, <1>7, <1>8, <1>9, <1>10, <1>11,
     <1>12, <1>13, <1>14, <1>15, <1>16, <1>17, <1>18, <1>19, <1>20, <1>21,
     <1>22, <1>23, <1>24, <1>25, <1>26, <1>27, <1>28, <1>29, <1>30, <1>31,
     <1>32
  DEF Next, Serve, Worker

\* Nothing else touches the mode, the arms and the authorization.
LEMMA WhoMovesTheSwitch ==
  ASSUME [Next]_vars
  PROVE  \/ UNCHANGED killSwitch
         \/ Tick \/ Restart \/ WorkerEnds
         \/ \E c \in Clients : \/ SetArms(c) \/ SetAuthorized(c) \/ ResetWithoutPin(c)
                              \/ ExpireAuthorization(c) \/ BeginPurge(c)
BY DEF Next, Serve, Worker, vars, killSwitch, Request, PassLock, AccessFails,
       FindVacant, WriteConfigs, CommitSetting, Report, EnsureIdentity, RequirePin,
       AdmitAttempt, RecordFailure, ClearFailures, LookAtMode, PeekAtPin, CountRows,
       PersistRow, PersistDirectly, MarkControl, MoveChild, WorkerMarksStopping,
       WorkerStopsChild, WorkerWipes, WorkerDeletes

\* Nothing else touches the failures and the lock they bring.
LEMMA WhoMovesTheThrottle ==
  ASSUME [Next]_vars
  PROVE  \/ UNCHANGED throttle
         \/ Tick \/ Restart
         \/ \E c \in Clients : RecordFailure(c) \/ ClearFailures(c)
BY DEF Next, Serve, Worker, vars, throttle, Request, PassLock, AccessFails,
       FindVacant, WriteConfigs, CommitSetting, Report, EnsureIdentity, RequirePin,
       AdmitAttempt, SetArms, SetAuthorized, LookAtMode, PeekAtPin, ResetWithoutPin,
       CountRows, ExpireAuthorization, BeginPurge, PersistRow, PersistDirectly,
       MarkControl, MoveChild, WorkerMarksStopping, WorkerStopsChild, WorkerWipes,
       WorkerDeletes, WorkerEnds

LEMMA ArmedStep ==
  ASSUME TypeOK, ArmedWhileAuthorized, [Next]_vars
  PROVE  ArmedWhileAuthorized'
<1> USE DEF ArmedWhileAuthorized
<1>1. CASE UNCHANGED killSwitch
  BY <1>1 DEF killSwitch
<1>2. CASE Tick
  BY <1>2 DEF Tick
<1>3. CASE Restart
  BY <1>3 DEF Restart
<1>4. CASE WorkerEnds
  BY <1>4 DEF WorkerEnds
<1>5. ASSUME NEW c \in Clients, SetArms(c)
      PROVE  ArmedWhileAuthorized'
  <2>1. CASE UNCHANGED killSwitch
    BY <2>1 DEF killSwitch
  <2>2. CASE ArmsSet(pc[c].op = "arm")
    BY <2>2 DEF ArmsSet
  <2>3. QED
    BY <1>5, <2>1, <2>2 DEF SetArms
<1>6. ASSUME NEW c \in Clients, SetAuthorized(c)
      PROVE  ArmedWhileAuthorized'
  BY <1>6 DEF SetAuthorized, killSwitch
<1>7. ASSUME NEW c \in Clients, ResetWithoutPin(c)
      PROVE  ArmedWhileAuthorized'
  BY <1>7 DEF ResetWithoutPin
<1>8. ASSUME NEW c \in Clients, ExpireAuthorization(c)
      PROVE  ArmedWhileAuthorized'
  BY <1>8 DEF ExpireAuthorization
<1>9. ASSUME NEW c \in Clients, BeginPurge(c)
      PROVE  ArmedWhileAuthorized'
  BY <1>9 DEF BeginPurge
<1>10. QED
  BY <1>1, <1>2, <1>3, <1>4, <1>5, <1>6, <1>7, <1>8, <1>9, WhoMovesTheSwitch

LEMMA ThrottleStep ==
  ASSUME TypeOK, LockFollowsFailures, [Next]_vars
  PROVE  LockFollowsFailures'
<1> USE KillSwitchAssumption DEF LockFollowsFailures
<1>1. CASE UNCHANGED throttle
  BY <1>1 DEF throttle
<1>2. CASE Tick
  <2>1. failures \in Seq(Nat) /\ lock \in 0 .. Lockout
    BY DEF TypeOK
  <2>2. failures' = Aged(failures) /\ lock' = IF lock > 0 THEN lock - 1 ELSE 0
    BY <1>2 DEF Tick
  <2> DEFINE n == Len(failures)
             k == Past(failures)
  <2>3. /\ k \in 0 .. n /\ n \in Nat /\ Len(failures') = n - k
        /\ \A i \in 1 .. n - k : failures'[i] = failures[i + k] + 1
    BY <2>1, <2>2, AgedFailures
  <2> HIDE DEF k
  <2>4. /\ \A i \in 1 .. n : failures[n] <= failures[i]
        /\ n >= FailureLimit => lock + failures[n] >= Lockout
    OBVIOUS
  <2>5. \A i \in 1 .. n : failures[i] \in Nat
    BY <2>1
  <2> HIDE DEF n
  <2>6. CASE n - k > 0
    <3>1. n - k \in 1 .. n - k /\ (n - k) + k = n /\ n \in 1 .. n
      BY <2>3, <2>6
    <3>2. failures'[n - k] = failures[n] + 1 /\ failures[n] \in Nat
      BY <2>3, <2>5, <3>1
    <3>3. \A i \in 1 .. n - k : failures'[n - k] <= failures'[i]
      <4>1. TAKE i \in 1 .. n - k
      <4>2. i + k \in 1 .. n
        BY <2>3
      <4>3. failures'[i] = failures[i + k] + 1 /\ failures[i + k] \in Nat
        BY <2>3, <2>5, <4>2
      <4>4. QED
        BY <2>4, <3>2, <4>2, <4>3
    <3>4. n - k >= FailureLimit => lock' + failures'[n - k] >= Lockout
      <4>1. n - k >= FailureLimit => n >= FailureLimit
        BY <2>3
      <4>2. n - k >= FailureLimit => lock + failures[n] >= Lockout
        BY <2>4, <4>1
      <4>3. QED
        BY <2>1, <2>2, <3>2, <4>2
    <3>5. QED
      BY <2>3, <3>3, <3>4
  <2>7. CASE n - k = 0
    BY <2>3, <2>7
  <2>8. QED
    BY <2>3, <2>6, <2>7
<1>3. CASE Restart
  BY <1>3 DEF Restart
<1>4. ASSUME NEW c \in Clients, RecordFailure(c)
      PROVE  LockFollowsFailures'
  <2>1. failures \in Seq(Nat) /\ lock \in 0 .. Lockout
    BY DEF TypeOK
  <2>2. /\ failures' = Append(failures, 0)
        /\ lock' = IF Len(failures') >= FailureLimit THEN Lockout ELSE lock
    BY <1>4 DEF RecordFailure
  <2>3. /\ Len(failures') = Len(failures) + 1 /\ failures'[Len(failures')] = 0
        /\ \A i \in 1 .. Len(failures') : failures'[i] \in Nat
    BY <2>1, <2>2
  <2>4. QED
    BY <2>2, <2>3
<1>5. ASSUME NEW c \in Clients, ClearFailures(c)
      PROVE  LockFollowsFailures'
  BY <1>5 DEF ClearFailures
<1>6. QED
  BY <1>1, <1>2, <1>3, <1>4, <1>5, WhoMovesTheThrottle

-----------------------------------------------------------------------------
(* Who has passed the lock.                                                *)

LEMMA PassedStep ==
  ASSUME TypeOK, Threads, PassedBefore, [Next]_vars
  PROVE  PassedBefore'
<1> USE GoToMoves, ReplyEnds, StagesListed
    DEF PassedBefore, Passed, PersistenceLocked, killSwitch
<1>1. ASSUME NEW c \in Clients, NEW op \in Operations, Request(c, op)
      PROVE  PassedBefore'
  <2>1. /\ pc' = [pc EXCEPT ![c] = [op |-> op, at |-> Entry(op), conn |-> "none"]]
        /\ UNCHANGED <<mode, early>>
    BY <1>1 DEF Request
  <2>2. QED
    BY <2>1, EntryFits DEF TypeOK
<1>2. ASSUME NEW c \in Clients, PassLock(c)
      PROVE  PassedBefore'
  BY <1>2 DEF PassLock, At, Opens, Idle
<1>3. ASSUME NEW c \in Clients, AccessFails(c)
      PROVE  PassedBefore'
  BY <1>3 DEF AccessFails, At, Opens, Idle
<1>4. ASSUME NEW c \in Clients, FindVacant(c)
      PROVE  PassedBefore'
  BY <1>4 DEF FindVacant, At, Opens, Idle
<1>5. ASSUME NEW c \in Clients, WriteConfigs(c)
      PROVE  PassedBefore'
  BY <1>5 DEF WriteConfigs, At, Opens, Idle
<1>6. ASSUME NEW c \in Clients, CommitSetting(c)
      PROVE  PassedBefore'
  BY <1>6 DEF CommitSetting, TypeOK, AfterSetting, Settings, PasswordRecord, PinRecord, At, Opens, Idle
<1>7. ASSUME NEW c \in Clients, Report(c)
      PROVE  PassedBefore'
  BY <1>7 DEF Report, At, Opens, Idle
<1>8. ASSUME NEW c \in Clients, EnsureIdentity(c)
      PROVE  PassedBefore'
  BY <1>8 DEF EnsureIdentity, At, Opens, Idle
<1>9. ASSUME NEW c \in Clients, RequirePin(c)
      PROVE  PassedBefore'
  <2>1. UNCHANGED mode /\ pc[c].conn = "checked" /\ At(c, "require")
    BY <1>9 DEF RequirePin, Opens
  <2>2. \/ Reply(c)
        \/ \E stage \in Stages : GoTo(c, stage) /\ UNCHANGED early
    BY <1>9, <2>1 DEF RequirePin, Threads, At
  <2>3. QED
    BY <2>1, <2>2 DEF Idle
<1>10. ASSUME NEW c \in Clients, SetArms(c)
      PROVE  PassedBefore'
  BY <1>10 DEF SetArms, At, Opens, Idle, ArmsSet
<1>11. ASSUME NEW c \in Clients, AdmitAttempt(c)
      PROVE  PassedBefore'
  BY <1>11 DEF AdmitAttempt, At, Opens, Idle
<1>12. ASSUME NEW c \in Clients, RecordFailure(c)
      PROVE  PassedBefore'
  BY <1>12 DEF RecordFailure, At, Opens, Idle
<1>13. ASSUME NEW c \in Clients, ClearFailures(c)
      PROVE  PassedBefore'
  BY <1>13 DEF ClearFailures, At, Opens, Idle
<1>14. ASSUME NEW c \in Clients, SetAuthorized(c)
      PROVE  PassedBefore'
  BY <1>14 DEF SetAuthorized, At, Opens, Idle
<1>15. ASSUME NEW c \in Clients, LookAtMode(c)
      PROVE  PassedBefore'
  BY <1>15 DEF LookAtMode, At, Opens, Idle
<1>16. ASSUME NEW c \in Clients, PeekAtPin(c)
      PROVE  PassedBefore'
  BY <1>16 DEF PeekAtPin, At, Opens, Idle
<1>17. ASSUME NEW c \in Clients, ResetWithoutPin(c)
      PROVE  PassedBefore'
  BY <1>17 DEF ResetWithoutPin, At, Opens, Idle
<1>18. ASSUME NEW c \in Clients, CountRows(c)
      PROVE  PassedBefore'
  BY <1>18 DEF CountRows, At, Opens, Idle
<1>19. ASSUME NEW c \in Clients, ExpireAuthorization(c)
      PROVE  PassedBefore'
  BY <1>19 DEF ExpireAuthorization, At, Opens, Idle
<1>20. ASSUME NEW c \in Clients, BeginPurge(c)
      PROVE  PassedBefore'
  BY <1>20 DEF BeginPurge, At, Opens, Idle, UnderWay, Threads, TypeOK
<1>21. ASSUME NEW c \in Clients, PersistRow(c)
      PROVE  PassedBefore'
  BY <1>21 DEF PersistRow, At, Opens, Idle
<1>22. ASSUME NEW c \in Clients, PersistDirectly(c)
      PROVE  PassedBefore'
  BY <1>22 DEF PersistDirectly, At, Opens, Idle
<1>23. ASSUME NEW c \in Clients, MarkControl(c)
      PROVE  PassedBefore'
  BY <1>23 DEF MarkControl, At, Opens, Idle
<1>24. ASSUME NEW c \in Clients, MoveChild(c)
      PROVE  PassedBefore'
  BY <1>24 DEF MoveChild, At, Opens, Idle
<1>25. CASE WorkerMarksStopping
  BY <1>25 DEF WorkerMarksStopping
<1>26. CASE WorkerStopsChild
  BY <1>26 DEF WorkerStopsChild
<1>27. CASE WorkerWipes
  BY <1>27 DEF WorkerWipes
<1>28. CASE WorkerDeletes
  BY <1>28 DEF WorkerDeletes, TypeOK
<1>29. CASE WorkerEnds
  BY <1>29 DEF WorkerEnds, UnderWay, Threads, TypeOK, At
<1>30. CASE Tick
  BY <1>30 DEF Tick
<1>31. CASE Restart
  BY <1>31 DEF Restart, At, Opens, Idle
<1>32. CASE UNCHANGED vars
  BY <1>32 DEF vars
<1>33. QED
  BY <1>1, <1>2, <1>3, <1>4, <1>5, <1>6, <1>7, <1>8, <1>9, <1>10, <1>11,
     <1>12, <1>13, <1>14, <1>15, <1>16, <1>17, <1>18, <1>19, <1>20, <1>21,
     <1>22, <1>23, <1>24, <1>25, <1>26, <1>27, <1>28, <1>29, <1>30, <1>31,
     <1>32
  DEF Next, Serve, Worker

-----------------------------------------------------------------------------
(* The inductive invariant.                                                *)

LEMMA IInvInit == Init => IInv
<1> SUFFICES ASSUME Init PROVE IInv
  OBVIOUS
<1> USE KillSwitchAssumption DEF Init
<1>1. TypeOK
  <2>1. pc \in [Clients -> Thread]
    BY IdleIsThread
  <2>2. failures \in Seq(Nat) /\ lock \in 0 .. Lockout
    OBVIOUS
  <2>3. QED
    BY <2>1, <2>2 DEF TypeOK, Thread, Hashes
<1>2. ArmedWhileAuthorized
  BY DEF ArmedWhileAuthorized
<1>3. Threads
  BY DEF Threads, Idle
<1>4. PassedBefore
  BY DEF PassedBefore, PersistenceLocked
<1>5. LockFollowsFailures
  BY DEF LockFollowsFailures
<1>6. QED
  BY <1>1, <1>2, <1>3, <1>4, <1>5 DEF IInv

LEMMA IInvStep == IInv /\ [Next]_vars => IInv'
BY TypeStep, ThreadsStep, ArmedStep, PassedStep, ThrottleStep DEF IInv

\* The inductive invariant holds in every state the kill switch reaches.
THEOREM Inductive == Spec => []IInv
BY IInvInit, IInvStep, PTL DEF Spec

-----------------------------------------------------------------------------
(* The theorems.                                                           *)

\* Type correctness: every variable has its type, for any number of requests
\* that cross in any way.
THEOREM TypeCorrect == Spec => []TypeOK
<1>1. IInv => TypeOK
  BY DEF IInv
<1>2. QED
  BY <1>1, Inductive, PTL

\* An authorization never outlives the arms it was given for (kill_switch_arm,
\* kill_switch_authorize, the reset of the status).
THEOREM ArmsBackAuthorization == Spec => []ArmedWhileAuthorized
<1>1. IInv => ArmedWhileAuthorized
  BY DEF IInv
<1>2. QED
  BY <1>1, Inductive, PTL

\* As many failures in the window as the limit mean a lock that holds, whatever
\* attempts were admitted before (record_auth_failure).
THEOREM EnoughFailuresLockOut == Spec => []FailuresLockOut
<1>1. ASSUME IInv PROVE FailuresLockOut
  <2> DEFINE n == Len(failures)
             recent == {i \in DOMAIN failures : failures[i] < Lockout}
  <2>1. /\ failures \in Seq(Nat) /\ lock \in 0 .. Lockout
        /\ \A i \in 1 .. n : failures[n] <= failures[i]
        /\ n >= FailureLimit => lock + failures[n] >= Lockout
    BY <1>1 DEF IInv, TypeOK, LockFollowsFailures
  <2>2. n \in Nat /\ DOMAIN failures = 1 .. n /\ \A i \in 1 .. n : failures[i] \in Nat
    BY <2>1
  <2> SUFFICES ASSUME Cardinality(recent) >= FailureLimit
               PROVE  lock > 0
    BY DEF FailuresLockOut
  <2>3. IsFiniteSet(recent) /\ Cardinality(recent) <= n
    <3>1. 1 \in Int /\ n \in Int
      BY <2>2
    <3>2. /\ IsFiniteSet(1 .. n)
          /\ Cardinality(1 .. n) = IF 1 > n THEN 0 ELSE n - 1 + 1
      BY <3>1, FS_Interval
    <3>3. recent \subseteq 1 .. n
      BY <2>2
    <3>4. IsFiniteSet(recent) /\ Cardinality(recent) <= Cardinality(1 .. n)
      BY <3>2, <3>3, FS_Subset
    <3>5. QED
      BY <2>2, <3>2, <3>4
  <2>4. Cardinality(recent) \in Nat
    BY <2>3, FS_CardinalityType
  <2>5. n >= FailureLimit /\ Cardinality(recent) # 0
    BY <2>2, <2>3, <2>4, KillSwitchAssumption
  <2>6. PICK i \in recent : TRUE
    BY <2>3, <2>5, FS_EmptySet
  <2>7. /\ i \in 1 .. n /\ failures[i] < Lockout
        /\ n \in 1 .. n
    BY <2>2, <2>6
  <2> HIDE DEF n, recent
  <2>8. failures[n] < Lockout /\ failures[n] \in Nat /\ failures[i] \in Nat
    BY <2>1, <2>2, <2>7, KillSwitchAssumption
  <2>9. QED
    BY <2>1, <2>5, <2>8, KillSwitchAssumption
<1>2. QED
  BY <1>1, Inductive, PTL

\* From the start of a purge on, only its worker, a restart, or a status older
\* than the purge ends the mode that locks persistence (kill_switch_status_payload).
THEOREM PurgeKeepsItsMode == Spec => OnlyOldRequestsBreakTheLock
<1> DEFINE Act == mode = "Deleting" /\ mode' # "Deleting"
                  => worker' = "none" \/ \E c \in early : At(c, "reset")
<1>1. ASSUME IInv, [Next]_vars PROVE Act
  <2> SUFFICES ASSUME mode = "Deleting", mode' # "Deleting",
                      ~(worker' = "none")
               PROVE  \E c \in early : At(c, "reset")
    OBVIOUS
  <2>1. PICK c \in Clients : \/ SetArms(c) \/ SetAuthorized(c) \/ ResetWithoutPin(c)
                            \/ ExpireAuthorization(c) \/ BeginPurge(c)
    BY <1>1, WhoMovesTheSwitch DEF killSwitch, Tick, Restart, WorkerEnds
  <2>2. ResetWithoutPin(c)
    BY <2>1 DEF SetArms, SetAuthorized, ExpireAuthorization, BeginPurge,
                PersistenceLocked, killSwitch
  <2>3. At(c, "reset")
    BY <2>2 DEF ResetWithoutPin
  <2>4. c \in early
    BY <1>1, <2>3 DEF IInv, PassedBefore, Passed, PersistenceLocked, At
  <2>5. QED
    BY <2>3, <2>4
<1>2. IInv /\ [Next]_vars => [Act]_vars
  BY <1>1
<1>3. QED
  BY <1>2, Inductive, PTL DEF Spec, OnlyOldRequestsBreakTheLock

\* What is persisted: a row, a setting, a file or the database anew.
Writes ==
  \/ ~(rows' \subseteq rows) \/ ~(settings' \subseteq settings)
  \/ ~(artifacts' \subseteq artifacts) \/ (file' /\ ~file)

LEMMA WhoWrites ==
  ASSUME [Next]_vars, Writes, worker' = worker, ~Restart
  PROVE  \E c \in Clients :
           \/ FindVacant(c) \/ WriteConfigs(c) \/ CommitSetting(c) \/ Report(c)
           \/ EnsureIdentity(c) \/ RequirePin(c) \/ PeekAtPin(c) \/ CountRows(c)
           \/ PersistRow(c) \/ PersistDirectly(c)
BY DEF Writes, Next, Serve, Worker, vars, store, Request, PassLock, AccessFails,
       AdmitAttempt, RecordFailure, ClearFailures, SetArms, SetAuthorized, LookAtMode,
       ResetWithoutPin, ExpireAuthorization, BeginPurge, MarkControl, MoveChild, Tick,
       WorkerMarksStopping, WorkerStopsChild, WorkerWipes, WorkerDeletes, WorkerEnds

\* A request that writes moves on, and it has passed the lock or never asked.
LEMMA WriterMoves ==
  ASSUME TypeOK, Threads, NEW c \in Clients,
         \/ FindVacant(c) \/ WriteConfigs(c) \/ CommitSetting(c) \/ Report(c)
         \/ EnsureIdentity(c) \/ RequirePin(c) \/ PeekAtPin(c) \/ CountRows(c)
         \/ PersistRow(c) \/ PersistDirectly(c)
  PROVE  pc'[c] # pc[c] /\ (Passed(c) \/ pc[c].op = "command")
<1> USE GoToMoves, ReplyEnds, StagesListed DEF Passed
<1>1. CASE CommitSetting(c)
  <2> DEFINE s == pc[c].at
  <2>1. /\ s \in Settings /\ pc[c].conn # "none"
        /\ \/ pc'[c].at = "clear" /\ s = "pinCreated"
           \/ pc'[c].at = AfterSetting[s]
    BY <1>1 DEF CommitSetting, TypeOK
  <2>2. pc'[c].at # s
    BY <2>1, NextSettingIsStage
  <2>3. QED
    BY <2>1, <2>2
<1>2. CASE WriteConfigs(c)
  BY <1>2 DEF WriteConfigs, At
<1>3. CASE EnsureIdentity(c)
  BY <1>3 DEF EnsureIdentity, At, Idle
<1>4. CASE PersistDirectly(c)
  BY <1>4 DEF PersistDirectly, At, Idle, Threads
<1>5. CASE \/ FindVacant(c) \/ Report(c) \/ RequirePin(c) \/ PeekAtPin(c)
           \/ CountRows(c) \/ PersistRow(c)
  <2>1. pc[c].conn = "checked"
    BY <1>5 DEF FindVacant, Report, RequirePin, PeekAtPin, CountRows, PersistRow, Opens
  <2>2. Reply(c) \/ \E stage \in Stages : GoTo(c, stage)
    BY <1>5 DEF FindVacant, Report, RequirePin, PeekAtPin, CountRows, PersistRow,
                Threads, Opens, At
  <2>3. pc'[c].conn = "none"
    BY <2>2 DEF Idle
  <2>4. QED
    BY <2>1, <2>3
<1>6. QED
  BY <1>1, <1>2, <1>3, <1>4, <1>5

\* While a purge runs and after it nothing is written but by the writers that
\* never ask and by requests that asked before (with_core_store_write).
THEOREM LockKeepsWritersOut == Spec => NothingPersistedUnderTheLock
<1> DEFINE Act == /\ PersistenceLocked /\ mode' = mode /\ worker' = worker
                  /\ \/ ~(rows' \subseteq rows) \/ ~(settings' \subseteq settings)
                     \/ ~(artifacts' \subseteq artifacts) \/ (file' /\ ~file)
                  => \E c \in Clients : /\ pc'[c] # pc[c]
                                        /\ c \in early \/ pc[c].op = "command"
<1>1. ASSUME IInv, [Next]_vars PROVE Act
  <2> SUFFICES ASSUME PersistenceLocked, mode' = mode, worker' = worker, Writes
               PROVE  \E c \in Clients : /\ pc'[c] # pc[c]
                                         /\ c \in early \/ pc[c].op = "command"
    BY DEF Writes
  <2>1. ~Restart
    BY DEF Restart, PersistenceLocked
  <2>2. PICK c \in Clients :
           \/ FindVacant(c) \/ WriteConfigs(c) \/ CommitSetting(c) \/ Report(c)
           \/ EnsureIdentity(c) \/ RequirePin(c) \/ PeekAtPin(c) \/ CountRows(c)
           \/ PersistRow(c) \/ PersistDirectly(c)
    BY <1>1, <2>1, WhoWrites
  <2>3. pc'[c] # pc[c] /\ (Passed(c) \/ pc[c].op = "command")
    BY <1>1, <2>2, WriterMoves DEF IInv
  <2>4. Passed(c) => c \in early
    BY <1>1 DEF IInv, PassedBefore
  <2>5. QED
    BY <2>3, <2>4
<1>2. IInv /\ [Next]_vars => [Act]_vars
  BY <1>1
<1>3. QED
  BY <1>2, Inductive, PTL DEF Spec, NothingPersistedUnderTheLock

=============================================================================
