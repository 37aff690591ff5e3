----------------------- MODULE OutboundDeliveryProofs -----------------------
(***************************************************************************)
(* Theorems about OutboundDelivery, for every value of its constants: any  *)
(* number of messages, recipients and ticks, any retry limits.             *)
(***************************************************************************)
EXTENDS OutboundDelivery, TLAPS

TargetLists == [Keys -> Statuses \cup {"none"}]

-----------------------------------------------------------------------------
(* The operators that read or write a row keep it a row.  A step that      *)
(* updates fields of a row is left to Zenon: Row is opaque to the rest.    *)

\* A row without receipt targets has a receipt list like any other.
LEMMA NoTargetsType == NoTargets \in TargetLists
BY DEF NoTargets, TargetLists

\* The fields of a row that the other lemmas use.
LEMMA RowFields ==
  ASSUME NEW r \in Row
  PROVE  /\ r.targets \in TargetLists
         /\ r.attempts \in 0 .. AttemptCap /\ r.ext \in 0 .. ExtMax
         /\ r.counted \in BOOLEAN /\ r.budget \in BOOLEAN /\ r.rexp \in BOOLEAN
         /\ r.retry \in BOOLEAN /\ r.pending \in BOOLEAN
         /\ r.error \in Errors \cup {"none"}
         /\ r.only \in SUBSET Dsts
BY DEF Row, TargetLists

\* The row of a message that does not exist.
LEMMA BlankType == Blank \in Row
<1>1. NoTargets \in [Keys -> Statuses \cup {"none"}]
  BY NoTargetsType DEF TargetLists
<1>2. 0 \in 0 .. AttemptCap /\ 0 \in 0 .. ExtMax
  BY BoundAssumption
<1>3. QED
  BY <1>1, <1>2, ZenonT(60) DEF Blank, Row, Errors, Reasons

\* A tick that does nothing.
LEMMA IdleTickType == IdleTick \in TickLocals
BY BlankType, NoTargetsType DEF IdleTick, TickLocals, Results, NoResult, TargetLists

\* The attempt counter saturates at its bound.
LEMMA NextAttemptType ==
  ASSUME NEW r \in Row PROVE NextAttempt(r) \in 0 .. AttemptCap
<1>1. r.attempts \in 0 .. AttemptCap
  BY RowFields
<1>2. QED
  BY <1>1, BoundAssumption DEF NextAttempt, Min2

\* The receipt lists the code derives from a row and from its clone.
LEMMA TargetsType ==
  ASSUME NEW m \in Msgs, NEW r \in Row
  PROVE  TargetsOf(m, r) \in TargetLists /\ StoredTargets(m, r) \in TargetLists
<1>1. r.targets \in TargetLists
  BY RowFields
<1>2. TargetsOf(m, r) \in TargetLists
  BY <1>1 DEF TargetsOf, TargetLists, Statuses
<1>3. QED
  BY <1>2, NoTargetsType DEF StoredTargets

\* The receipt list once the admitted recipients are registered.
LEMMA WithAcceptedType ==
  ASSUME NEW targets \in TargetLists, NEW acc
  PROVE  WithAccepted(targets, acc) \in TargetLists
BY DEF WithAccepted, TargetLists, Statuses

\* One update of a row each: what a success, a retry and a receipt take back.
LEMMA ClearedType ==
  ASSUME NEW r \in Row PROVE Cleared(r) \in Row
BY ZenonT(60) DEF Cleared, Row, Reasons

\* A repaired row, its receipt targets taken away, is still a row.
LEMMA WithoutTargetsType ==
  ASSUME NEW r \in Row, NEW ts \in TargetLists
  PROVE  [r EXCEPT !.targets = ts, !.listed = FALSE, !.dexp = FALSE] \in Row
BY ZenonT(60) DEF Row, TargetLists

\* A row stripped of the metadata of a superseded attempt is still a row.
LEMMA ClearedForRetryType ==
  ASSUME NEW r \in Row PROVE ClearedForRetry(r) \in Row
BY ClearedType, NoTargetsType, WithoutTargetsType DEF ClearedForRetry

\* A row whose dispatch status says accepted is still a row.
LEMMA AcceptedStatusType ==
  ASSUME NEW r \in Row
  PROVE  [r EXCEPT !.status = "accepted", !.pending = FALSE] \in Row
BY ZenonT(60) DEF Row

\* A row with a final receipt is still a row.
LEMMA AcknowledgedType ==
  ASSUME NEW r \in Row PROVE Acknowledged(r) \in Row
BY ClearedType, AcceptedStatusType DEF Acknowledged

\* A row handed to the propagation fallback is still a row.
LEMMA ForPropagationType ==
  ASSUME NEW r \in Row PROVE ForPropagation(r) \in Row
<1>1. 0 \in 0 .. AttemptCap
  BY BoundAssumption
<1>2. QED
  BY <1>1, ZenonT(60) DEF ForPropagation, Row, Errors, Reasons

\* A row scheduled for a retry is still a row.
LEMMA RetryingType ==
  ASSUME NEW r \in Row, NEW a \in 0 .. AttemptCap, NEW e \in Errors \cup {"none"},
         NEW reason \in Reasons
  PROVE  Retrying(r, a, e, reason) \in Row
BY ZenonT(60) DEF Retrying, Row

\* A failed row is still a row.
LEMMA FailedType ==
  ASSUME NEW r \in Row, NEW e \in Errors \cup {"none"}
  PROVE  Failed(r, e) \in Row
BY ZenonT(60) DEF Failed, Row

\* A row taken up by a tick is still a row.
LEMMA InProgressType ==
  ASSUME NEW r \in Row, NEW t \in Ticks, NEW expired \in BOOLEAN
  PROVE  [r EXCEPT !.state = "queued", !.status = "in_progress", !.retry = FALSE,
                   !.last = t, !.dexp = expired] \in Row
BY ZenonT(60) DEF Row

\* The same for the whole mark of a started attempt.
LEMMA StartedType ==
  ASSUME NEW r \in Row, NEW t \in Ticks, NEW expired \in BOOLEAN
  PROVE  Started(r, t, expired) \in Row
BY ClearedForRetryType, InProgressType DEF Started

\* A row whose attempts are set, as the failure paths do last.
LEMMA AttemptsType ==
  ASSUME NEW r \in Row, NEW a \in 0 .. AttemptCap
  PROVE  [r EXCEPT !.attempts = a] \in Row
BY ZenonT(60) DEF Row

\* finalize_stale_pending_dispatches leaves a row a row.
LEMMA DispatchTimeoutType ==
  ASSUME NEW m \in Msgs, NEW r \in Row PROVE AfterDispatchTimeout(m, r) \in Row
<1> DEFINE late == [r EXCEPT !.dexp = FALSE]
<1>1. ForPropagation(ClearedForRetry(r)) \in Row
  BY ClearedForRetryType, ForPropagationType
<1>2. late \in Row
  BY ZenonT(60) DEF Row
<1>3. Retrying(late, NextAttempt(r), "send_timeout", "retryable") \in Row
  BY <1>2, NextAttemptType, RetryingType DEF Errors, Reasons
<1>4. [Failed(late, "send_timeout") EXCEPT !.attempts = NextAttempt(r)] \in Row
  BY <1>2, FailedType, NextAttemptType, AttemptsType DEF Errors
<1>5. QED
  BY <1>1, <1>3, <1>4 DEF AfterDispatchTimeout

\* finalize_expired_delivery_receipts leaves a row a row: the extension is
\* counted only below its limit.
LEMMA ReceiptTimeoutType ==
  ASSUME NEW r \in Row PROVE AfterReceiptTimeout(r) \in Row
<1>1. ASSUME NEW e \in 0 .. ExtMax PROVE [r EXCEPT !.ext = e, !.rexp = FALSE] \in Row
  BY ZenonT(60) DEF Row
<1>2. r.ext < ExtMax => r.ext + 1 \in 0 .. ExtMax
  BY RowFields, BoundAssumption
<1>3. [Failed(r, "other") EXCEPT !.attempts = NextAttempt(r)] \in Row
  BY FailedType, NextAttemptType, AttemptsType DEF Errors
<1>4. QED
  BY <1>1, <1>2, <1>3 DEF AfterReceiptTimeout

\* schedule_outbound_retry_after_failure, with the clone c.
LEMMA FailureRetryType ==
  ASSUME NEW r \in Row, NEW c \in Row, NEW e \in Errors
  PROVE  AfterFailureRetry(r, c, e) \in Row
<1>1. ReasonFor(e) \in Reasons
  BY DEF ReasonFor, Reasons
<1>2. Retrying(r, NextAttempt(c), e, ReasonFor(e)) \in Row
  BY <1>1, NextAttemptType, RetryingType
<1>3. (e = "rate_limited" \/ BudgetActive(c)) \in BOOLEAN
  BY DEF BudgetActive
<1>4. ASSUME NEW q \in Row, NEW b \in BOOLEAN PROVE [q EXCEPT !.budget = b] \in Row
  BY ZenonT(60) DEF Row
<1>5. QED
  BY <1>2, <1>3, <1>4 DEF AfterFailureRetry

\* the repair of the rows at startup.
LEMMA RepairedType ==
  ASSUME NEW m \in Msgs, NEW r \in Row PROVE Repaired(m, r) \in Row
<1>1. ASSUME NEW q \in Row, NEW ts \in TargetLists
      PROVE  [q EXCEPT !.pending = FALSE, !.counted = TRUE, !.targets = ts] \in Row
  BY ZenonT(60) DEF Row, TargetLists
<1>2. ASSUME NEW kept
      PROVE  [k \in Keys |-> IF k \in kept THEN r.targets[k] ELSE "none"] \in TargetLists
  BY RowFields DEF TargetLists
<1>3. QED
  BY <1>1, <1>2, ClearedType DEF Repaired

-----------------------------------------------------------------------------
(* Type correctness.                                                       *)

\* The part of TypeOK about the ticks.
LocalsOK == /\ tick \in [Ticks -> TickLocals]
            /\ \A u \in Ticks : AtRow(u) => tick[u].cur \in tick[u].work

\* A tick whose locals become l.
LEMMA TickUpdate ==
  ASSUME TypeOK, NEW t \in Ticks, NEW l \in TickLocals, tick' = [tick EXCEPT ![t] = l],
         l.pc \in {"wait", "check", "apply", "update", "verdict"} => l.cur \in l.work
  PROVE  LocalsOK'
<1>1. tick' \in [Ticks -> TickLocals]
  BY DEF TypeOK
<1>2. ASSUME NEW u \in Ticks, tick'[u].pc \in {"wait", "check", "apply", "update", "verdict"}
      PROVE  tick'[u].cur \in tick'[u].work
  <2>1. CASE u = t
    BY <1>2, <2>1 DEF TypeOK
  <2>2. CASE u # t
    BY <1>2, <2>2 DEF TypeOK, AtRow
  <2>3. QED
    BY <2>1, <2>2
<1>3. QED
  BY <1>1, <1>2 DEF LocalsOK, AtRow

\* A tick that goes on: to a step about the row it is at, to a step about none.
LEMMA MoveType ==
  ASSUME TypeOK, NEW t \in Ticks, NEW pc \in {"select", "receipts", "check", "apply", "verdict"},
         tick' = [tick EXCEPT ![t] = [tick[t] EXCEPT !.pc = pc]],
         AtRow(t) \/ pc \in {"select", "receipts"}
  PROVE  LocalsOK'
<1> DEFINE l == [tick[t] EXCEPT !.pc = pc]
<1>1. l \in TickLocals
  BY ZenonT(60) DEF TypeOK, TickLocals
<1>2. l.pc = pc /\ l.cur = tick[t].cur /\ l.work = tick[t].work
  BY DEF TypeOK, TickLocals
<1>3. l.pc \in {"check", "apply", "verdict"} => l.cur \in l.work
  BY <1>2 DEF TypeOK
<1> HIDE DEF l
<1>4. QED
  BY <1>1, <1>2, <1>3, TickUpdate DEF l

\* A tick that has taken its clones.
LEMMA ScanType ==
  ASSUME TypeOK, NEW t \in Ticks, NEW pc \in {"scan", "due", "poll"}, NEW S \in SUBSET Msgs,
         tick' = [tick EXCEPT ![t] = [tick[t] EXCEPT !.pc = pc, !.work = S,
                    !.snap = [m \in Msgs |-> IF m \in S THEN msgs[m] ELSE Blank]]]
  PROVE  LocalsOK'
<1> DEFINE snap == [m \in Msgs |-> IF m \in S THEN msgs[m] ELSE Blank]
           l == [tick[t] EXCEPT !.pc = pc, !.work = S, !.snap = snap]
<1>1. snap \in [Msgs -> Row]
  BY BlankType DEF TypeOK
<1> HIDE DEF snap
<1>2. l \in TickLocals /\ l.pc = pc
  BY <1>1, ZenonT(60) DEF TypeOK, TickLocals
<1> HIDE DEF l
<1>3. QED
  BY <1>2, TickUpdate DEF l, snap

\* A tick that takes up the row m, or the answer about the row it is at.
LEMMA TakeUpType ==
  ASSUME TypeOK, NEW t \in Ticks, NEW m \in tick[t].work,
         NEW seen \in [Keys -> Statuses \cup {"none"}],
         \/ tick' = [tick EXCEPT ![t] = [tick[t] EXCEPT !.pc = "wait", !.cur = m]]
         \/ tick' = [tick EXCEPT ![t] = [tick[t] EXCEPT !.pc = "update", !.cur = m, !.seen = seen]]
  PROVE  LocalsOK'
<1> DEFINE wait == [tick[t] EXCEPT !.pc = "wait", !.cur = m]
           update == [tick[t] EXCEPT !.pc = "update", !.cur = m, !.seen = seen]
<1>1. m \in Msgs
  BY DEF TypeOK, TickLocals
<1>2. tick[t] \in TickLocals
  BY DEF TypeOK
<1>3. wait \in TickLocals /\ wait.cur \in wait.work
  BY <1>1, <1>2 DEF TickLocals
<1>4. update \in TickLocals
  BY <1>1, <1>2 DEF TickLocals
<1>5. update.cur \in update.work
  BY <1>1, <1>2 DEF TickLocals
<1> HIDE DEF wait, update
<1>6. QED
  BY <1>3, <1>4, <1>5, TickUpdate DEF wait, update

\* A tick that has the result of its dispatch keeps its types.
LEMMA ResultType ==
  ASSUME TypeOK, NEW t \in Ticks, AtRow(t), NEW res \in Results,
         tick' = [tick EXCEPT ![t] = [tick[t] EXCEPT !.pc = "check", !.result = res]]
  PROVE  LocalsOK'
<1> DEFINE l == [tick[t] EXCEPT !.pc = "check", !.result = res]
<1>1. tick[t] \in TickLocals /\ tick[t].cur \in tick[t].work
  BY DEF TypeOK
<1>2. l \in TickLocals
  BY <1>1 DEF TickLocals
<1>3. l.cur \in l.work
  BY <1>1 DEF TickLocals
<1> HIDE DEF l
<1>4. QED
  BY <1>2, <1>3, TickUpdate DEF l

\* The tick is done with a row.
LEMMA DoneWithType ==
  ASSUME TypeOK, NEW t \in Ticks, NEW m, NEW next \in {"due", "poll"}, DoneWith(t, m, next)
  PROVE  LocalsOK'
<1>1. tick[t].snap \in [Msgs -> Row] /\ tick[t].work \subseteq Msgs /\ tick[t].overdue \in BOOLEAN
  BY DEF TypeOK, TickLocals
<1>2. [tick[t].snap EXCEPT ![m] = Blank] \in [Msgs -> Row]
  BY <1>1, BlankType
<1> DEFINE new == [IdleTick EXCEPT !.pc = next, !.work = tick[t].work \ {m},
             !.snap = [tick[t].snap EXCEPT ![m] = Blank], !.overdue = tick[t].overdue]
<1>3. new \in TickLocals /\ new.pc = next
  BY <1>1, <1>2, IdleTickType DEF TickLocals, IdleTick
<1>4. tick' = [tick EXCEPT ![t] = new]
  BY DEF DoneWith
<1> HIDE DEF new
<1>5. QED
  BY <1>3, <1>4, TickUpdate

\* Where a tick is at a row, the row is a message and its clone a row.
LEMMA AtRowType ==
  ASSUME TypeOK, NEW t \in Ticks, AtRow(t)
  PROVE  /\ tick[t].cur \in Msgs /\ tick[t].cur \in tick[t].work
         /\ tick[t].snap[tick[t].cur] \in Row /\ msgs[tick[t].cur] \in Row
         /\ tick[t].result \in Results /\ tick[t].seen \in TargetLists
BY DEF TypeOK, TickLocals, TargetLists

\* Recipients admitted by reticulumd.
LEMMA AdmitType ==
  ASSUME TypeOK, NEW m \in Msgs, NEW S, Admit(m, S)
  PROVE  /\ rd' \in [Msgs -> [Keys -> Reports \cup {"none", "active"}]]
         /\ handed' \in [Msgs -> [Dsts -> 0 .. 2]]
<1>1. rd[m] \in [Keys -> Reports \cup {"none", "active"}] /\ handed[m] \in [Dsts -> 0 .. 2]
  BY DEF TypeOK
<1>2. [k \in Keys |-> IF k \in S THEN "active" ELSE rd[m][k]]
        \in [Keys -> Reports \cup {"none", "active"}]
  BY <1>1
<1>3. [d \in Dsts |-> IF d \in S THEN Min2(handed[m][d] + 1, 2) ELSE handed[m][d]]
        \in [Dsts -> 0 .. 2]
  BY <1>1 DEF Min2
<1>4. QED
  BY <1>2, <1>3 DEF Admit, TypeOK

\* The recipients of a dispatch are destinations.
LEMMA DestinationsType ==
  ASSUME NEW m \in Msgs, NEW r PROVE Destinations(m, r) \subseteq Dsts
BY MessageAssumption DEF Destinations

\* The rows that Record, RetryRejected, Accept and the callbacks write.
LEMMA RecordedType ==
  ASSUME NEW method \in {"direct", "auto", "propagated"}
  PROVE  [Blank EXCEPT !.state = "queued", !.method = method,
                       !.status = "queued", !.retry = TRUE] \in Row
BY BlankType, ZenonT(60) DEF Row

\* A row of which the admitted recipients are recorded is still a row.
LEMMA RejectedType ==
  ASSUME NEW r \in Row, NEW counted \in BOOLEAN, NEW ts \in TargetLists, NEW only \in SUBSET Dsts
  PROVE  [r EXCEPT !.counted = counted, !.targets = ts, !.listed = TRUE, !.only = only] \in Row
BY ZenonT(60) DEF Row, TargetLists

\* A row whose dispatch was accepted is still a row.
LEMMA AcceptType ==
  ASSUME NEW r \in Row, NEW state \in {"sent", "propagating"}, NEW a \in 0 .. AttemptCap,
         NEW ts \in TargetLists, NEW wanted \in BOOLEAN, NEW rexp \in BOOLEAN
  PROVE  [r EXCEPT !.state = state, !.status = "accepted", !.attempts = a, !.counted = TRUE,
                   !.targets = ts, !.listed = TRUE, !.only = {}, !.pending = wanted,
                   !.rexp = rexp, !.retry = FALSE] \in Row
BY ZenonT(60) DEF Row, TargetLists

\* A verdict of the receipts leaves a row.
LEMMA StateType ==
  ASSUME NEW r \in Row, NEW state \in {"sent", "delivered", "propagated"}
  PROVE  [r EXCEPT !.state = state] \in Row
BY ZenonT(60) DEF Row

\* A polled receipt list leaves a row.
LEMMA PolledType ==
  ASSUME NEW r \in Row, NEW ts \in TargetLists
  PROVE  [r EXCEPT !.listed = TRUE, !.targets = ts] \in Row
BY ZenonT(60) DEF Row, TargetLists

\* What the adapter callbacks write are rows.
LEMMA CallbackRowTypes ==
  ASSUME NEW r \in Row
  PROVE  /\ \A state \in {"delivered", "propagated"} :
              [r EXCEPT !.state = state, !.pending = FALSE] \in Row
         /\ \A a \in 0 .. AttemptCap, reason \in Reasons, due \in BOOLEAN :
              [r EXCEPT !.state = "queued", !.status = "queued", !.retry = TRUE, !.attempts = a,
                        !.reason = reason, !.pending = FALSE, !.due = due] \in Row
         /\ [r EXCEPT !.state = "queued", !.method = "propagated", !.status = "queued",
                      !.pending = FALSE, !.retry = FALSE] \in Row
         /\ [r EXCEPT !.state = "queued", !.last = NoTick, !.retry = FALSE] \in Row
<1>1. ASSUME NEW state \in {"delivered", "propagated"}
      PROVE  [r EXCEPT !.state = state, !.pending = FALSE] \in Row
  BY ZenonT(60) DEF Row
<1>2. ASSUME NEW a \in 0 .. AttemptCap, NEW reason \in Reasons, NEW due \in BOOLEAN
      PROVE  [r EXCEPT !.state = "queued", !.status = "queued", !.retry = TRUE, !.attempts = a,
                        !.reason = reason, !.pending = FALSE, !.due = due] \in Row
  BY ZenonT(60) DEF Row
<1>3. [r EXCEPT !.state = "queued", !.method = "propagated", !.status = "queued",
                      !.pending = FALSE, !.retry = FALSE] \in Row
  BY ZenonT(60) DEF Row
<1>4. [r EXCEPT !.state = "queued", !.last = NoTick, !.retry = FALSE] \in Row
  BY ZenonT(60) DEF Row
<1>5. QED
  BY <1>1, <1>2, <1>3, <1>4

\* A deadline that passes leaves a row.
LEMMA FlagTypes ==
  ASSUME NEW r \in Row, NEW b \in BOOLEAN
  PROVE  /\ [r EXCEPT !.due = b] \in Row /\ [r EXCEPT !.dexp = b] \in Row
         /\ [r EXCEPT !.rexp = b] \in Row /\ [r EXCEPT !.retry = b] \in Row
<1>1. [r EXCEPT !.due = b] \in Row
  BY DEF Row
<1>2. [r EXCEPT !.dexp = b] \in Row
  BY DEF Row
<1>3. [r EXCEPT !.rexp = b] \in Row
  BY DEF Row
<1>4. [r EXCEPT !.retry = b] \in Row
  BY DEF Row
<1>5. QED
  BY <1>1, <1>2, <1>3, <1>4

\* The initial state is of the right shape.
LEMMA InitType == Init => TypeOK
<1>1. 0 \in 0 .. 2 /\ 0 \in 0 .. SendCap /\ 0 \in 0 .. CallBudget /\ 0 \in 0 .. CrashBudget
  BY BoundAssumption
<1>2. \A t \in Ticks : Init => ~AtRow(t)
  BY DEF Init, AtRow, IdleTick
<1>3. QED
  BY <1>1, <1>2, BlankType, IdleTickType DEF Init, TypeOK

\* What the acceptance of a dispatch writes.
LEMMA AcceptWrites ==
  ASSUME TypeOK, NEW t \in Ticks, Accept(t)
  PROVE  \E q \in Row : /\ msgs' = [msgs EXCEPT ![tick[t].cur] = q]
                        /\ q.state \in {"sent", "propagating"} /\ q.status = "accepted"
                        /\ ~q.retry /\ q.counted /\ Listed(q.targets) # {}
<1> DEFINE m == tick[t].cur
           c == tick[t].snap[m]
           acc == tick[t].result.acc
           wanted == /\ m \notin Unreceipted
                     /\ c.method = "propagated" => m \notin Multi
           q == Cleared(msgs[m])
           state == IF c.method = "propagated" THEN "propagating" ELSE "sent"
           ts == WithAccepted(StoredTargets(m, c), acc)
           rexp == msgs[m].rexp /\ ~wanted
           new == [q EXCEPT !.state = state, !.status = "accepted",
                      !.attempts = c.attempts, !.counted = TRUE, !.targets = ts,
                      !.listed = TRUE, !.only = {}, !.pending = wanted, !.rexp = rexp,
                      !.retry = FALSE]
<1>1. m \in Msgs /\ c \in Row /\ msgs[m] \in Row /\ acc \in SUBSET Dsts /\ acc # {}
  BY AtRowType DEF Accept, Applying, AtRow, Results
<1>2. ts \in TargetLists
  BY <1>1, TargetsType, WithAcceptedType
<1>3. q \in Row /\ c.attempts \in 0 .. AttemptCap
  BY <1>1, ClearedType, RowFields
<1>4. /\ state \in {"sent", "propagating"}
      /\ wanted \in BOOLEAN /\ rexp \in BOOLEAN
  OBVIOUS
<1>5. msgs' = [msgs EXCEPT ![m] = new]
  BY DEF Accept
<1>6. Listed(ts) # {}
  <2>1. PICK d \in acc : d \in Keys
    BY <1>1 DEF Keys
  <2>2. ts[d] # "none"
    BY <2>1 DEF WithAccepted
  <2>3. QED
    BY <2>1, <2>2 DEF Listed
<1> HIDE DEF state, ts, rexp, wanted, q
<1>7. new \in Row
  BY <1>2, <1>3, <1>4, AcceptType, ZenonT(60)
<1>8. /\ new.state = state /\ new.status = "accepted" /\ ~new.retry /\ new.counted
      /\ new.targets = ts
  BY <1>3 DEF Row
<1> HIDE DEF new
<1>9. QED
  BY <1>4, <1>5, <1>6, <1>7, <1>8

\* What the statuses of a poll write: no target is dropped.
LEMMA UpdateWrites ==
  ASSUME TypeOK, NEW t \in Ticks, UpdateTargets(t)
  PROVE  \E q \in Row : /\ msgs' = [msgs EXCEPT ![tick[t].cur] = q]
                        /\ LET r == msgs[tick[t].cur]
                           IN  /\ q.state = r.state /\ q.status = r.status /\ q.retry = r.retry
                               /\ q.pending = r.pending /\ q.counted = r.counted
                               /\ Listed(r.targets) \subseteq Listed(q.targets)
<1> DEFINE m == tick[t].cur
           r == msgs[m]
           seen == tick[t].seen
           targets == TargetsOf(m, r)
           new == [k \in Keys |->
                    IF targets[k] = "none" \/ seen[k] = "none" THEN targets[k]
                    ELSE IF seen[k] = "unannounced" /\ PartialOk(m, r) THEN "waiting"
                    ELSE seen[k]]
           row == [r EXCEPT !.listed = TRUE, !.targets = new]
<1>1. m \in Msgs /\ r \in Row /\ seen \in TargetLists
  BY AtRowType DEF UpdateTargets, AtRow
<1>2. targets \in TargetLists
  BY <1>1, TargetsType
<1>3. new \in TargetLists
  <2> HIDE DEF targets, seen, r
  <2>1. QED
    BY <1>1, <1>2 DEF TargetLists, Statuses
<1>4. Listed(r.targets) \subseteq Listed(new)
  <2>1. Listed(r.targets) \subseteq Listed(targets)
    BY DEF TargetsOf
  <2>2. Listed(targets) \subseteq Listed(new)
    <3> HIDE DEF targets, seen, r
    <3>1. QED
      BY DEF Listed
  <2>3. QED
    BY <2>1, <2>2
<1>5. PICK q \in {r, row} : msgs' = [msgs EXCEPT ![m] = q]
  BY DEF UpdateTargets
<1> HIDE DEF new
<1>6. row \in Row
  BY <1>1, <1>3, PolledType
<1>7. /\ row.state = r.state /\ row.status = r.status /\ row.retry = r.retry
      /\ row.pending = r.pending /\ row.counted = r.counted /\ row.targets = new
  BY <1>1 DEF Row
<1> HIDE DEF row
<1>8. QED
  BY <1>1, <1>4, <1>5, <1>6, <1>7

\* The steps of a tick keep the types.
LEMMA TickStepType ==
  ASSUME TypeOK, NEW t \in Ticks, TickStep(t) PROVE TypeOK'
<1> USE DEF TypeOK, LocalsOK
<1>1. CASE StartTick(t)
  <2>1. msgs' \in [Msgs -> Row]
    BY <1>1, DispatchTimeoutType DEF StartTick
  <2>2. LocalsOK'
    <3>1. tick' = [tick EXCEPT ![t] = [tick[t] EXCEPT !.pc = "select"]]
      BY <1>1 DEF StartTick
    <3>2. QED
      BY <3>1, MoveType
  <2>3. QED
    BY <1>1, <2>1, <2>2 DEF StartTick, truth, budgets
<1>2. CASE SelectDue(t)
  <2> DEFINE due == {m \in Msgs : RetryDue(m, msgs[m])}
             pc == IF due = {} THEN "scan" ELSE "due"
  <2>1. tick' = [tick EXCEPT ![t] = [tick[t] EXCEPT !.pc = pc, !.work = due,
                   !.snap = [m \in Msgs |-> IF m \in due THEN msgs[m] ELSE Blank]]]
    BY <1>2 DEF SelectDue
  <2>2. due \in SUBSET Msgs /\ pc \in {"scan", "due", "poll"}
    OBVIOUS
  <2> HIDE DEF due, pc
  <2>3. LocalsOK'
    BY <2>1, <2>2, ScanType
  <2>4. QED
    BY <1>2, <2>3 DEF SelectDue, truth, budgets
<1>3. ASSUME NEW m \in Msgs, RepairDirectTimeout(t, m) PROVE TypeOK'
  <2>1. msgs' \in [Msgs -> Row]
    BY <1>3, ForPropagationType DEF RepairDirectTimeout
  <2>2. LocalsOK'
    BY <1>3, DoneWithType DEF RepairDirectTimeout
  <2>3. QED
    BY <1>3, <2>1, <2>2 DEF RepairDirectTimeout, truth, budgets
<1>4. ASSUME NEW m \in Msgs, BeginAttempt(t, m) PROVE TypeOK'
  <2>1. msgs' \in [Msgs -> Row]
    <3>1. PICK expired \in BOOLEAN : msgs' = [msgs EXCEPT ![m] = Started(msgs[m], t, expired)]
      BY <1>4 DEF BeginAttempt
    <3>2. QED
      BY <3>1, StartedType
  <2>2. LocalsOK'
    <3>1. tick' = [tick EXCEPT ![t] = [tick[t] EXCEPT !.pc = "wait", !.cur = m]]
      BY <1>4 DEF BeginAttempt
    <3>2. m \in tick[t].work /\ NoTargets \in [Keys -> Statuses \cup {"none"}]
      BY <1>4, NoTargetsType DEF BeginAttempt, TargetLists
    <3>3. QED
      BY <3>1, <3>2, TakeUpType
  <2>3. sends' \in [Msgs -> 0 .. SendCap]
    BY <1>4, BoundAssumption DEF BeginAttempt, Min2
  <2>4. QED
    BY <1>4, <2>1, <2>2, <2>3 DEF BeginAttempt, truth, budgets
<1>5. CASE DispatchAnswered(t)
  <2> DEFINE m == tick[t].cur
             D == Destinations(m, tick[t].snap[m])
  <2>1. m \in Msgs /\ D \subseteq Dsts
    BY <1>5, AtRowType, DestinationsType DEF DispatchAnswered, AtRow
  <2>2. PICK acc \in SUBSET D, again \in SUBSET D :
          /\ Admit(m, acc)
          /\ tick' = [tick EXCEPT ![t].pc = "check",
               ![t].result = [NoResult EXCEPT !.kind = "ok", !.acc = acc, !.again = again]]
    BY <1>5 DEF DispatchAnswered
  <2>3. [NoResult EXCEPT !.kind = "ok", !.acc = acc, !.again = again] \in Results
    BY <2>1 DEF NoResult, Results
  <2>4. LocalsOK'
    <3> DEFINE res == [NoResult EXCEPT !.kind = "ok", !.acc = acc, !.again = again]
    <3>1. tick' = [tick EXCEPT ![t] = [tick[t] EXCEPT !.pc = "check", !.result = res]]
      BY <2>2
    <3> HIDE DEF res
    <3>2. AtRow(t)
      BY <1>5 DEF DispatchAnswered, AtRow
    <3>3. QED
      BY <2>3, <3>1, <3>2, ResultType DEF res
  <2>5. QED
    BY <1>5, <2>1, <2>2, <2>4, AdmitType DEF DispatchAnswered, budgets
<1>6. CASE DispatchErred(t)
  <2> DEFINE m == tick[t].cur
             D == Destinations(m, tick[t].snap[m])
  <2>1. m \in Msgs /\ D \subseteq Dsts
    BY <1>6, AtRowType, DestinationsType DEF DispatchErred, AtRow
  <2>2. PICK acc \in SUBSET D, error \in SendErrors :
          /\ Admit(m, acc)
          /\ lost' = lost \cup ({m} \X acc)
          /\ tick' = [tick EXCEPT ![t].pc = "check",
               ![t].result = [NoResult EXCEPT !.kind = "error", !.err = error]]
    BY <1>6 DEF DispatchErred
  <2>3. [NoResult EXCEPT !.kind = "error", !.err = error] \in Results
    BY EnvironmentAssumption DEF NoResult, Results
  <2>4. LocalsOK'
    <3> DEFINE res == [NoResult EXCEPT !.kind = "error", !.err = error]
    <3>1. tick' = [tick EXCEPT ![t] = [tick[t] EXCEPT !.pc = "check", !.result = res]]
      BY <2>2
    <3> HIDE DEF res
    <3>2. AtRow(t)
      BY <1>6 DEF DispatchErred, AtRow
    <3>3. QED
      BY <2>3, <3>1, <3>2, ResultType DEF res
  <2>5. lost' \subseteq Msgs \X Dsts
    BY <2>1, <2>2
  <2>6. QED
    BY <1>6, <2>1, <2>2, <2>4, <2>5, AdmitType DEF DispatchErred, budgets
<1>7. CASE CheckCurrent(t)
  <2>1. tick[t].cur \in Msgs /\ tick[t].result \in Results
    BY <1>7, AtRowType DEF CheckCurrent, AtRow
  <2>2. lost' \subseteq Msgs \X Dsts
    BY <1>7, <2>1 DEF CheckCurrent, Results
  <2>3. CASE tick' = [tick EXCEPT ![t].pc = "apply"]
    <3>1. LocalsOK'
      <4>1. tick' = [tick EXCEPT ![t] = [tick[t] EXCEPT !.pc = "apply"]] /\ AtRow(t)
        BY <1>7, <2>3 DEF CheckCurrent, AtRow
      <4>2. QED
        BY <4>1, MoveType
    <3>2. QED
      BY <1>7, <2>2, <3>1 DEF CheckCurrent, budgets
  <2>4. CASE DoneWith(t, tick[t].cur, "due")
    <3>1. LocalsOK'
      BY <2>4, DoneWithType
    <3>2. QED
      BY <1>7, <2>2, <3>1 DEF CheckCurrent, budgets
  <2>5. QED
    BY <1>7, <2>3, <2>4 DEF CheckCurrent
<1>8. CASE RetryFailure(t)
  <2>1. AtRow(t)
    BY <1>8 DEF RetryFailure, Applying, AtRow
  <2>2. tick[t].result.err \in Errors \cup {"none"}
    BY <2>1, AtRowType DEF Results
  <2>3. tick[t].result.err \in Errors => msgs' \in [Msgs -> Row]
    BY <1>8, <2>1, AtRowType, FailureRetryType DEF RetryFailure
  <2>4. tick[t].result.err = "none" => msgs' \in [Msgs -> Row]
    <3> DEFINE c == tick[t].snap[tick[t].cur]
               r == msgs[tick[t].cur]
    <3>1. c \in Row /\ r \in Row
      BY <2>1, AtRowType
    <3>2. ReasonFor("none") \in Reasons
      BY DEF ReasonFor, Reasons
    <3>3. Retrying(r, NextAttempt(c), "none", ReasonFor("none")) \in Row
      BY <3>1, <3>2, NextAttemptType, RetryingType
    <3>4. ASSUME NEW q \in Row, NEW b \in BOOLEAN PROVE [q EXCEPT !.budget = b] \in Row
      BY ZenonT(60) DEF Row
    <3>5. AfterFailureRetry(r, c, "none") \in Row
      BY <3>3, <3>4 DEF AfterFailureRetry, BudgetActive
    <3>6. QED
      BY <1>8, <3>5 DEF RetryFailure
  <2>5. LocalsOK'
    BY <1>8, DoneWithType DEF RetryFailure
  <2>6. QED
    BY <1>8, <2>2, <2>3, <2>4, <2>5 DEF RetryFailure, truth, budgets
<1>9. CASE RetryRejected(t)
  <2> DEFINE m == tick[t].cur
             c == tick[t].snap[m]
             acc == tick[t].result.acc
             again == tick[t].result.again
  <2>1. m \in Msgs /\ c \in Row /\ msgs[m] \in Row /\ again \in SUBSET Dsts
    BY <1>9, AtRowType DEF RetryRejected, Applying, AtRow, Results
  <2>2. WithAccepted(StoredTargets(m, c), acc) \in TargetLists
    BY <2>1, TargetsType, WithAcceptedType
  <2>3. (c.counted \/ acc # {}) \in BOOLEAN
    OBVIOUS
  <2>4. Retrying(msgs[m], NextAttempt(c), "other", "other") \in Row
    BY <2>1, NextAttemptType, RetryingType DEF Errors, Reasons
  <2>5. msgs' \in [Msgs -> Row]
    <3> DEFINE q == Retrying(msgs[m], NextAttempt(c), "other", "other")
    <3>1. [q EXCEPT !.counted = c.counted \/ acc # {},
                    !.targets = WithAccepted(StoredTargets(m, c), acc),
                    !.listed = TRUE, !.only = again] \in Row
      BY <2>1, <2>2, <2>3, <2>4, RejectedType
    <3>2. QED
      BY <1>9, <3>1 DEF RetryRejected
  <2>6. LocalsOK'
    BY <1>9, DoneWithType DEF RetryRejected
  <2>7. QED
    BY <1>9, <2>5, <2>6 DEF RetryRejected, truth, budgets
<1>10. CASE Accept(t)
  <2>1. msgs' \in [Msgs -> Row]
    <3>1. PICK q \in Row : msgs' = [msgs EXCEPT ![tick[t].cur] = q]
      BY <1>10, AcceptWrites
    <3>2. QED
      BY <3>1
  <2>2. LocalsOK'
    BY <1>10, DoneWithType DEF Accept
  <2>3. QED
    BY <1>10, <2>1, <2>2 DEF Accept, truth, budgets
<1>11. CASE GiveUp(t)
  <2> DEFINE m == tick[t].cur
             c == tick[t].snap[m]
             res == tick[t].result
  <2>1. m \in Msgs /\ c \in Row /\ msgs[m] \in Row /\ res.err \in Errors \cup {"none"}
    BY <1>11, AtRowType DEF GiveUp, Applying, AtRow, Results
  <2>2. Failed(msgs[m], IF res.kind = "error" THEN res.err ELSE "other") \in Row
    BY <2>1, FailedType DEF Errors
  <2>3. msgs' \in [Msgs -> Row]
    <3> DEFINE q == Failed(msgs[m], IF res.kind = "error" THEN res.err ELSE "other")
               new == [q EXCEPT !.attempts = c.attempts]
    <3>1. msgs' = [msgs EXCEPT ![m] = new]
      BY <1>11 DEF GiveUp
    <3>2. c.attempts \in 0 .. AttemptCap
      BY <2>1, RowFields
    <3> HIDE DEF q
    <3>3. new \in Row
      BY <2>2, <3>2, AttemptsType DEF q
    <3> HIDE DEF new
    <3>4. QED
      BY <2>1, <3>1, <3>3
  <2>4. LocalsOK'
    BY <1>11, DoneWithType DEF GiveUp
  <2>5. QED
    BY <1>11, <2>3, <2>4 DEF GiveUp, truth, budgets
<1>12. CASE ScanReceipts(t)
  <2>1. PICK S \in SUBSET Msgs :
          tick' = [tick EXCEPT ![t] = [tick[t] EXCEPT !.pc = "poll", !.work = S,
                     !.snap = [m \in Msgs |-> IF m \in S THEN msgs[m] ELSE Blank]]]
    <3>1. PICK S \in SUBSET {m \in Msgs : PollCandidate(m, msgs[m]) /\ msgs[m].counted} :
            tick' = [tick EXCEPT ![t].pc = "poll", ![t].work = S,
                       ![t].snap = [m \in Msgs |-> IF m \in S THEN msgs[m] ELSE Blank]]
      BY <1>12 DEF ScanReceipts
    <3>2. S \in SUBSET Msgs
      OBVIOUS
    <3>3. QED
      BY <3>1, <3>2
  <2>2. LocalsOK'
    BY <2>1, ScanType
  <2>3. QED
    BY <1>12, <2>2 DEF ScanReceipts, truth, budgets
<1>13. ASSUME NEW m \in Msgs, PollStatus(t, m) PROVE TypeOK'
  <2> DEFINE targets == TargetsOf(m, tick[t].snap[m])
             terminal == {k \in Keys : SuccessTerminal(targets[k]) \/ FailureTerminal(targets[k])}
  <2>1. PICK asked \in SUBSET (Listed(targets) \ terminal) :
          LET seen == [k \in Keys |->
                         IF k \in terminal THEN targets[k]
                         ELSE IF k \in asked
                              THEN IF rd[m][k] = "active" THEN "pending" ELSE rd[m][k]
                              ELSE "none"]
          IN  \/ DoneWith(t, m, "poll")
              \/ tick' = [tick EXCEPT ![t].pc = "update", ![t].cur = m, ![t].seen = seen]
    BY <1>13 DEF PollStatus
  <2> DEFINE seen == [k \in Keys |->
                        IF k \in terminal THEN targets[k]
                        ELSE IF k \in asked
                             THEN IF rd[m][k] = "active" THEN "pending" ELSE rd[m][k]
                             ELSE "none"]
  <2>2. targets \in [Keys -> Statuses \cup {"none"}]
    BY TargetsType DEF TickLocals, TargetLists
  <2>3. seen \in [Keys -> Statuses \cup {"none"}]
    <3> HIDE DEF terminal, targets
    <3>1. rd[m] \in [Keys -> Reports \cup {"none", "active"}]
      OBVIOUS
    <3>2. QED
      BY <2>2, <3>1 DEF Reports, Statuses
  <2> HIDE DEF seen
  <2>4. LocalsOK'
    <3>1. CASE DoneWith(t, m, "poll")
      BY <3>1, DoneWithType
    <3>2. CASE tick' = [tick EXCEPT ![t].pc = "update", ![t].cur = m, ![t].seen = seen]
      <4>1. tick' = [tick EXCEPT ![t] = [tick[t] EXCEPT !.pc = "update", !.cur = m, !.seen = seen]]
        BY <3>2
      <4>2. m \in tick[t].work
        BY <1>13 DEF PollStatus
      <4>3. QED
        BY <2>3, <4>1, <4>2, TakeUpType
    <3>3. QED
      BY <2>1, <3>1, <3>2 DEF seen
  <2>5. QED
    BY <1>13, <2>4 DEF PollStatus, truth, budgets
<1>14. CASE UpdateTargets(t)
  <2>1. msgs' \in [Msgs -> Row]
    <3>1. PICK q \in Row : msgs' = [msgs EXCEPT ![tick[t].cur] = q]
      BY <1>14, UpdateWrites
    <3>2. QED
      BY <3>1
  <2>2. LocalsOK'
    <3>1. tick' = [tick EXCEPT ![t] = [tick[t] EXCEPT !.pc = "verdict"]] /\ AtRow(t)
      BY <1>14 DEF UpdateTargets, AtRow
    <3>2. QED
      BY <3>1, MoveType
  <2>3. QED
    BY <1>14, <2>1, <2>2 DEF UpdateTargets, truth, budgets
<1>15. CASE Settle(t)
  <2> DEFINE m == tick[t].cur
             r == msgs[m]
  <2>1. m \in Msgs /\ r \in Row
    BY <1>15, AtRowType DEF Settle, AtRow
  <2>2. /\ Failed(r, "other") \in Row
        /\ [Acknowledged(r) EXCEPT !.state = "delivered"] \in Row
        /\ [Acknowledged(r) EXCEPT !.state = SuccessState(r)] \in Row
    BY <2>1, FailedType, AcknowledgedType, StateType DEF Errors, SuccessState
  <2>3. msgs' \in [Msgs -> Row]
    BY <1>15, <2>1, <2>2 DEF Settle
  <2>4. LocalsOK'
    BY <1>15, DoneWithType DEF Settle
  <2>5. QED
    BY <1>15, <2>3, <2>4 DEF Settle, truth, budgets
<1>16. CASE LoopEnds(t)
  <2>1. LocalsOK'
    <3>1. CASE tick' = [tick EXCEPT ![t] = IdleTick]
      BY <3>1, IdleTickType, TickUpdate DEF IdleTick
    <3>2. CASE tick' = [tick EXCEPT ![t] = [tick[t] EXCEPT !.pc = "receipts"]]
      BY <3>2, MoveType
    <3>3. QED
      BY <1>16, <3>1, <3>2 DEF LoopEnds
  <2>2. QED
    BY <1>16, <2>1 DEF LoopEnds, truth, budgets
<1>17. CASE FinalizeReceipts(t)
  <2>1. msgs' \in [Msgs -> Row]
    BY <1>17, ReceiptTimeoutType DEF FinalizeReceipts
  <2>2. LocalsOK'
    BY <1>17, IdleTickType, TickUpdate DEF FinalizeReceipts, IdleTick
  <2>3. QED
    BY <1>17, <2>1, <2>2 DEF FinalizeReceipts, truth, budgets
<1>18. QED
  BY <1>1, <1>2, <1>3, <1>4, <1>5, <1>6, <1>7, <1>8, <1>9, <1>10, <1>11, <1>12, <1>13,
     <1>14, <1>15, <1>16, <1>17 DEF TickStep

\* The callbacks of the adapter keep the types.
LEMMA AdapterStepType ==
  ASSUME TypeOK, NEW m \in Msgs, AdapterStep(m) PROVE TypeOK'
<1> USE DEF TypeOK
<1> DEFINE OthersOK == /\ tick' = tick /\ rd' = rd /\ handed' = handed /\ lost' = lost
                       /\ sends' = sends /\ crashes' = crashes /\ calls' \in 0 .. CallBudget
<1>1. ASSUME NEW kind, CallbackOn(kind, m), Adapter PROVE OthersOK
  BY <1>1, BoundAssumption DEF CallbackOn, Adapter, truth
<1>2. ASSUME msgs' \in [Msgs -> Row], failing' \in [Msgs -> Row], OthersOK PROVE TypeOK'
  BY <1>2 DEF AtRow
<1> HIDE DEF OthersOK
<1>3. CASE ReceiptCallback(m)
  <2>1. msgs' \in [Msgs -> Row]
    <3>1. PICK state \in {"delivered", "propagated"} :
            msgs' = [msgs EXCEPT ![m] = [msgs[m] EXCEPT !.state = state, !.pending = FALSE]]
      BY <1>3 DEF ReceiptCallback
    <3>2. QED
      BY <3>1, CallbackRowTypes
  <2>2. QED
    BY <1>1, <1>2, <1>3, <2>1 DEF ReceiptCallback
<1>4. CASE FailureRead(m)
  BY <1>1, <1>2, <1>4 DEF FailureRead
<1>5. CASE FailureWrite(m)
  <2>1. msgs' \in [Msgs -> Row]
    <3>1. PICK reason \in FailureReasons :
            msgs' = [msgs EXCEPT ![m] =
              IF failing[m].method = "propagated" /\ MayRetryFailure(m, failing[m], reason)
              THEN AfterFailureRetry(msgs[m], failing[m], reason)
              ELSE [Failed(msgs[m], reason) EXCEPT !.retry = msgs[m].retry]]
      BY <1>5 DEF FailureWrite
    <3>2. reason \in Errors
      BY EnvironmentAssumption
    <3>3. AfterFailureRetry(msgs[m], failing[m], reason) \in Row
      BY <3>2, FailureRetryType
    <3>4. Failed(msgs[m], reason) \in Row /\ msgs[m].retry \in BOOLEAN
      BY <3>2, FailedType, RowFields
    <3>5. [Failed(msgs[m], reason) EXCEPT !.retry = msgs[m].retry] \in Row
      BY <3>4, FlagTypes
    <3>6. QED
      BY <3>1, <3>3, <3>5
  <2>2. failing' \in [Msgs -> Row]
    BY <1>5, BlankType DEF FailureWrite
  <2>3. OthersOK
    BY <1>5 DEF FailureWrite, Adapter, truth, OthersOK
  <2>4. QED
    BY <1>2, <2>1, <2>2, <2>3
<1>6. CASE RetryCallback(m)
  <2>1. msgs' \in [Msgs -> Row]
    <3>1. PICK attempts \in {0, NextAttempt(msgs[m])}, reason \in {"retryable", "other"},
               due \in BOOLEAN :
            msgs' = [msgs EXCEPT ![m] =
              [ClearedForRetry(msgs[m]) EXCEPT !.state = "queued", !.status = "queued",
                 !.retry = TRUE, !.attempts = attempts, !.reason = reason, !.pending = FALSE,
                 !.due = due]]
      BY <1>6 DEF RetryCallback
    <3>2. attempts \in 0 .. AttemptCap /\ reason \in Reasons
      BY NextAttemptType, BoundAssumption DEF Reasons
    <3>3. ClearedForRetry(msgs[m]) \in Row
      BY ClearedForRetryType
    <3>4. QED
      BY <3>1, <3>2, <3>3, CallbackRowTypes
  <2>2. QED
    BY <1>1, <1>2, <1>6, <2>1 DEF RetryCallback
<1>7. CASE PropagationCallback(m)
  <2>1. msgs' \in [Msgs -> Row]
    <3>1. msgs' = [msgs EXCEPT ![m] =
            [msgs[m] EXCEPT !.state = "queued", !.method = "propagated", !.status = "queued",
                            !.pending = FALSE, !.retry = FALSE]]
      BY <1>7 DEF PropagationCallback
    <3>2. QED
      BY <3>1, CallbackRowTypes
  <2>2. QED
    BY <1>1, <1>2, <1>7, <2>1 DEF PropagationCallback
<1>8. CASE DropCallback(m)
  <2>1. msgs' \in [Msgs -> Row]
    BY <1>8, FailedType, RowFields DEF DropCallback
  <2>2. QED
    BY <1>1, <1>2, <1>8, <2>1 DEF DropCallback
<1>9. CASE AttemptCallback(m)
  <2>1. msgs' \in [Msgs -> Row]
    <3>1. msgs' = [msgs EXCEPT ![m] =
            [ClearedForRetry(msgs[m]) EXCEPT !.state = "queued", !.last = NoTick, !.retry = FALSE]]
      BY <1>9 DEF AttemptCallback
    <3>2. ClearedForRetry(msgs[m]) \in Row
      BY ClearedForRetryType
    <3>3. QED
      BY <3>1, <3>2, CallbackRowTypes
  <2>2. QED
    BY <1>1, <1>2, <1>9, <2>1 DEF AttemptCallback
<1>10. QED
  BY <1>3, <1>4, <1>5, <1>6, <1>7, <1>8, <1>9 DEF AdapterStep

\* Time, reticulumd and a crash keep the types.
LEMMA TimeStepType ==
  ASSUME TypeOK, NEW m \in Msgs, TimeStep(m) PROVE TypeOK'
<1>1. msgs' \in [Msgs -> Row]
  <2>1. msgs[m] \in Row
    BY DEF TypeOK
  <2>2. PICK row \in Row : msgs' = [msgs EXCEPT ![m] = row]
    <3>1. /\ [msgs[m] EXCEPT !.due = TRUE] \in Row
          /\ [msgs[m] EXCEPT !.dexp = TRUE] \in Row
          /\ [msgs[m] EXCEPT !.rexp = TRUE] \in Row
      BY <2>1, FlagTypes
    <3>2. \/ msgs' = [msgs EXCEPT ![m] = [msgs[m] EXCEPT !.due = TRUE]]
          \/ msgs' = [msgs EXCEPT ![m] = [msgs[m] EXCEPT !.dexp = TRUE]]
          \/ msgs' = [msgs EXCEPT ![m] = [msgs[m] EXCEPT !.rexp = TRUE]]
      BY DEF TimeStep, BackoffElapses, DispatchDeadline, ReceiptDeadline
    <3>3. QED
      BY <3>1, <3>2
  <2>3. QED
    BY <2>2 DEF TypeOK
<1>2. UNCHANGED <<tick, failing, rd, handed, lost, sends, calls, crashes>>
  BY DEF TimeStep, BackoffElapses, DispatchDeadline, ReceiptDeadline, Passing, truth, budgets
<1>3. QED
  BY <1>1, <1>2 DEF TypeOK, AtRow

\* A tick that is overdue keeps the types.
LEMMA OverdueType ==
  ASSUME TypeOK, NEW t \in Ticks, TickOverdue(t) PROVE TypeOK'
<1> DEFINE l == [tick[t] EXCEPT !.overdue = TRUE]
<1>1. l \in TickLocals /\ l.pc = tick[t].pc /\ l.cur = tick[t].cur /\ l.work = tick[t].work
  BY ZenonT(60) DEF TypeOK, TickLocals
<1>2. tick' = [tick EXCEPT ![t] = l]
  BY DEF TickOverdue
<1>3. AtRow(t) => l.cur \in l.work
  BY <1>1 DEF TypeOK
<1> HIDE DEF l
<1>4. LocalsOK'
  BY <1>1, <1>2, <1>3, TickUpdate DEF AtRow
<1>5. QED
  BY <1>4 DEF TypeOK, LocalsOK, TickOverdue, Passing, truth, budgets

\* A crash and the repair at startup keep the types.
LEMMA CrashType ==
  ASSUME TypeOK, CrashAndRestart PROVE TypeOK'
<1>1. msgs' \in [Msgs -> Row] /\ failing' \in [Msgs -> Row]
  BY RepairedType, BlankType DEF TypeOK, CrashAndRestart
<1>2. tick' = [t \in Ticks |-> IdleTick]
  BY DEF CrashAndRestart
<1>3. LocalsOK'
  BY <1>2, IdleTickType DEF LocalsOK, AtRow, IdleTick
<1> DEFINE All == UNION {Handing(t) : t \in {u \in Ticks : tick[u].pc = "wait"}}
<1>4. All \subseteq Msgs \X Dsts
  <2>1. ASSUME NEW t \in Ticks, tick[t].pc = "wait" PROVE Handing(t) \subseteq Msgs \X Dsts
    BY <2>1, AtRowType, DestinationsType DEF Handing, AtRow
  <2>2. QED
    BY <2>1
<1>5. PICK S \in SUBSET All :
       /\ rd' = [m \in Msgs |-> [k \in Keys |-> IF <<m, k>> \in S THEN "active" ELSE rd[m][k]]]
       /\ handed' = [m \in Msgs |-> [d \in Dsts |->
                       IF <<m, d>> \in S THEN Min2(handed[m][d] + 1, 2) ELSE handed[m][d]]]
       /\ lost' = lost \cup S \cup
            UNION {{tick[t].cur} \X tick[t].result.acc : t \in {u \in Ticks : tick[u].cur # NoMsg}}
  BY DEF CrashAndRestart
<1>6. rd' \in [Msgs -> [Keys -> Reports \cup {"none", "active"}]]
  BY <1>5 DEF TypeOK
<1>7. handed' \in [Msgs -> [Dsts -> 0 .. 2]]
  BY <1>5 DEF TypeOK, Min2
<1>8. lost' \subseteq Msgs \X Dsts
  <2>1. ASSUME NEW t \in Ticks, tick[t].cur # NoMsg
        PROVE  {tick[t].cur} \X tick[t].result.acc \subseteq Msgs \X Dsts
    BY <2>1 DEF TypeOK, TickLocals, Results
  <2>2. QED
    BY <1>4, <1>5, <2>1 DEF TypeOK
<1>9. crashes' \in 0 .. CrashBudget
  BY BoundAssumption DEF TypeOK, CrashAndRestart
<1>10. QED
  BY <1>1, <1>3, <1>6, <1>7, <1>8, <1>9 DEF TypeOK, LocalsOK, CrashAndRestart

\* Every step of the system keeps the types.
LEMMA NextType == TypeOK /\ [Next]_vars => TypeOK'
<1> SUFFICES ASSUME TypeOK, [Next]_vars PROVE TypeOK'
  OBVIOUS
<1>1. ASSUME NEW m \in Msgs, Record(m) PROVE TypeOK'
  <2>1. PICK method \in {"direct", "auto", "propagated"} :
          msgs' = [msgs EXCEPT ![m] = [Blank EXCEPT !.state = "queued", !.method = method,
                                         !.status = "queued", !.retry = TRUE]]
    BY <1>1, MessageAssumption DEF Record
  <2>2. msgs' \in [Msgs -> Row]
    BY <2>1, RecordedType DEF TypeOK
  <2>3. QED
    BY <1>1, <2>2 DEF TypeOK, AtRow, Record, truth, budgets
<1>2. ASSUME NEW m \in Msgs, NEW d \in Dsts, RdProgress(m, d) PROVE TypeOK'
  <2>1. rd' \in [Msgs -> [Keys -> Reports \cup {"none", "active"}]]
    <3>1. PICK s \in Reports : rd' = [rd EXCEPT ![m][d] = s]
      BY <1>2, EnvironmentAssumption DEF RdProgress
    <3>2. [rd[m] EXCEPT ![d] = s] \in [Keys -> Reports \cup {"none", "active"}]
      BY DEF TypeOK, Keys
    <3>3. rd' = [rd EXCEPT ![m] = [rd[m] EXCEPT ![d] = s]]
      BY <3>1
    <3>4. QED
      BY <3>2, <3>3 DEF TypeOK
  <2>2. QED
    BY <1>2, <2>1 DEF TypeOK, AtRow, RdProgress, budgets
<1>3. CASE UNCHANGED vars
  BY <1>3 DEF TypeOK, AtRow, vars
<1>4. QED
  BY <1>1, <1>2, <1>3, AdapterStepType, TimeStepType, TickStepType, OverdueType, CrashType DEF Next

\* Every row, tick and history variable keeps the shape it is declared with,
\* whatever the number of messages, ticks and recipients (lib.rs:14560-17050).
THEOREM TypeCorrect == Spec => []TypeOK
<1>1. Init => TypeOK
  BY InitType
<1>2. TypeOK /\ [Next]_vars => TypeOK'
  BY NextType
<1>3. QED
  BY <1>1, <1>2, PTL DEF Spec

-----------------------------------------------------------------------------
(* What the operators do to the fields that tell a row in progress from    *)
(* one that is scheduled, open or awaiting its receipt.                    *)

\* No attempt is in progress while another is scheduled.
Quiet(r) == r.status = "in_progress" => ~r.retry

\* Not settled: the row of a message that may be dispatched.
Open(r) == r.state \in {"queued", "failed"} /\ ~r.pending

\* A receipt that is awaited can be polled.
Pollable(r) ==
  r.pending => /\ r.state \in {"sent", "propagating"}
               /\ r.counted
               /\ Listed(r.targets) # {}

\* The fields that neither flags nor counters touch.
SameStanding(q, r) ==
  /\ q.state = r.state /\ q.status = r.status /\ q.retry = r.retry /\ q.pending = r.pending
  /\ q.counted = r.counted /\ q.targets = r.targets

\* The invariants look only at the standing of a row.
LEMMA SameStandingKeeps ==
  ASSUME NEW q, NEW r, SameStanding(q, r)
  PROVE  /\ Quiet(r) => Quiet(q)
         /\ Open(r) => Open(q)
         /\ Pollable(r) => Pollable(q)
BY DEF SameStanding, Quiet, Open, Pollable

\* Deadlines that pass do not change the standing of a row.
LEMMA FlagsKeepStanding ==
  ASSUME NEW r \in Row, NEW b \in BOOLEAN
  PROVE  /\ SameStanding([r EXCEPT !.due = b], r)
         /\ SameStanding([r EXCEPT !.dexp = b], r)
         /\ SameStanding([r EXCEPT !.rexp = b], r)
BY DEF SameStanding, Row

\* What a success or a retry takes back leaves the standing of the row.
LEMMA ClearedStanding ==
  ASSUME NEW r \in Row
  PROVE  /\ SameStanding(Cleared(r), r)
         /\ ClearedForRetry(r).status = r.status /\ ClearedForRetry(r).retry = r.retry
         /\ ClearedForRetry(r).pending = r.pending /\ ClearedForRetry(r).state = r.state
BY DEF SameStanding, Cleared, ClearedForRetry, Row

\* A row whose attempt has just started.
LEMMA StartedStanding ==
  ASSUME NEW r \in Row, NEW t, NEW expired
  PROVE  LET q == Started(r, t, expired)
         IN  q.state = "queued" /\ q.status = "in_progress" /\ ~q.retry /\ q.pending = r.pending
BY ClearedForRetryType, ClearedStanding DEF Started, Row

\* The ways an attempt ends other than by an acceptance.
Ended(q) == q.state \in {"queued", "failed"} /\ q.status \in {"queued", "failed"} /\ ~q.pending

\* A row whose attempt has ended without success satisfies all that is asked of a row.
LEMMA EndedIsOpen ==
  ASSUME NEW q, Ended(q) PROVE Quiet(q) /\ Open(q) /\ Pollable(q)
BY DEF Ended, Quiet, Open, Pollable

\* The fallback to propagation ends an attempt.
LEMMA ForPropagationEnds ==
  ASSUME NEW r \in Row PROVE Ended(ForPropagation(r))
BY DEF Ended, ForPropagation, Row

\* The schedule of a retry ends an attempt.
LEMMA RetryingEnds ==
  ASSUME NEW r \in Row, NEW a, NEW e, NEW reason PROVE Ended(Retrying(r, a, e, reason))
BY DEF Ended, Retrying, Row

\* A failure ends an attempt and schedules none.
LEMMA FailedEnds ==
  ASSUME NEW r \in Row, NEW e PROVE Ended(Failed(r, e)) /\ ~Failed(r, e).retry
BY DEF Ended, Failed, Row

\* Counting attempts does not reopen an attempt that has ended.
LEMMA AttemptsKeepEnd ==
  ASSUME NEW q \in Row, NEW a PROVE Ended(q) => Ended([q EXCEPT !.attempts = a])
BY DEF Ended, Row

\* The timeout of a dispatch ends the attempt.
LEMMA DispatchTimeoutEnds ==
  ASSUME NEW m, NEW r \in Row PROVE Ended(AfterDispatchTimeout(m, r))
<1> DEFINE late == [r EXCEPT !.dexp = FALSE]
<1>1. late \in Row
  BY FlagTypes
<1>2. Failed(late, "send_timeout") \in Row
  BY <1>1, FailedType DEF Errors
<1>3. QED
  BY <1>1, <1>2, ClearedForRetryType, ForPropagationEnds, RetryingEnds, FailedEnds,
     AttemptsKeepEnd DEF AfterDispatchTimeout

\* The retry after an error ends the attempt.
LEMMA FailureRetryEnds ==
  ASSUME NEW r \in Row, NEW c \in Row, NEW e \in Errors \cup {"none"}
  PROVE  Ended(AfterFailureRetry(r, c, e))
<1>1. ReasonFor(e) \in Reasons
  BY DEF ReasonFor, Reasons
<1>2. Retrying(r, NextAttempt(c), e, ReasonFor(e)) \in Row
  BY <1>1, NextAttemptType, RetryingType
<1>3. Ended(Retrying(r, NextAttempt(c), e, ReasonFor(e)))
  BY RetryingEnds
<1>4. ASSUME NEW q \in Row, Ended(q), NEW b PROVE Ended([q EXCEPT !.budget = b])
  BY <1>4 DEF Ended, Row
<1>5. QED
  BY <1>2, <1>3, <1>4 DEF AfterFailureRetry

\* An expired receipt deadline fails the row or extends the wait.
LEMMA ReceiptTimeoutStanding ==
  ASSUME NEW r \in Row
  PROVE  Ended(AfterReceiptTimeout(r)) \/ SameStanding(AfterReceiptTimeout(r), r)
<1>1. ASSUME NEW e PROVE SameStanding([r EXCEPT !.ext = e, !.rexp = FALSE], r)
  BY DEF SameStanding, Row
<1>2. Failed(r, "other") \in Row
  BY FailedType DEF Errors
<1>3. Ended([Failed(r, "other") EXCEPT !.attempts = NextAttempt(r)])
  BY <1>2, FailedEnds, AttemptsKeepEnd
<1>4. QED
  BY <1>1, <1>3 DEF AfterReceiptTimeout

\* The startup repair settles the receipt of a row, or leaves its standing.
LEMMA RepairedStanding ==
  ASSUME NEW m, NEW r \in Row
  PROVE  LET q == Repaired(m, r)
         IN  /\ q.state = r.state /\ q.status = r.status /\ q.retry = r.retry
             /\ ~q.pending \/ SameStanding(q, r)
<1>1. ASSUME NEW ts
      PROVE  LET q == [Cleared(r) EXCEPT !.pending = FALSE, !.counted = TRUE, !.targets = ts]
             IN  q.state = r.state /\ q.status = r.status /\ q.retry = r.retry /\ ~q.pending
  BY ClearedType, ClearedStanding DEF SameStanding, Row
<1>2. SameStanding(r, r)
  BY DEF SameStanding
<1>3. QED
  BY <1>1, <1>2, ClearedStanding DEF Repaired, SameStanding

-----------------------------------------------------------------------------
(* No attempt is in progress while another is scheduled.                   *)

\* One row is written: it is quiet if what is written is.
LEMMA PutQuiet ==
  ASSUME TypeOK, InProgressNotScheduled, NEW m, NEW q, m \in Msgs => Quiet(q),
         msgs' = [msgs EXCEPT ![m] = q]
  PROVE  InProgressNotScheduled'
BY DEF TypeOK, InProgressNotScheduled, Quiet

\* A step that leaves the rows alone keeps them quiet.
LEMMA SameQuiet ==
  ASSUME InProgressNotScheduled, msgs' = msgs PROVE InProgressNotScheduled'
BY DEF InProgressNotScheduled

\* No step of a tick leaves a row both in progress and scheduled.
LEMMA TickStepQuiet ==
  ASSUME TypeOK, InProgressNotScheduled, NEW t \in Ticks, TickStep(t)
  PROVE  InProgressNotScheduled'
<1> DEFINE m == tick[t].cur
           c == tick[t].snap[m]
<1> USE DEF TypeOK
<1>1. CASE StartTick(t)
  <2>1. ASSUME NEW n \in Msgs PROVE Quiet(AfterDispatchTimeout(n, msgs[n]))
    BY DispatchTimeoutEnds, EndedIsOpen
  <2>2. QED
    BY <1>1, <2>1 DEF StartTick, InProgressNotScheduled, Quiet
<1>2. ASSUME NEW n \in Msgs, RepairDirectTimeout(t, n) PROVE InProgressNotScheduled'
  BY <1>2, ForPropagationEnds, EndedIsOpen, PutQuiet DEF RepairDirectTimeout
<1>3. ASSUME NEW n \in Msgs, BeginAttempt(t, n) PROVE InProgressNotScheduled'
  <2>1. PICK expired : msgs' = [msgs EXCEPT ![n] = Started(msgs[n], t, expired)]
    BY <1>3 DEF BeginAttempt
  <2>2. Quiet(Started(msgs[n], t, expired))
    BY StartedStanding DEF Quiet
  <2>3. QED
    BY <2>1, <2>2, PutQuiet
<1>4. CASE RetryFailure(t)
  <2>1. c \in Row /\ msgs[m] \in Row /\ tick[t].result.err \in Errors \cup {"none"}
    BY <1>4, AtRowType DEF RetryFailure, Applying, AtRow, Results
  <2>2. Quiet(AfterFailureRetry(msgs[m], c, tick[t].result.err))
    BY <2>1, FailureRetryEnds, EndedIsOpen
  <2>3. QED
    BY <1>4, <2>2, PutQuiet DEF RetryFailure
<1>5. CASE RetryRejected(t)
  <2>1. c \in Row /\ msgs[m] \in Row
    BY <1>5, AtRowType DEF RetryRejected, Applying, AtRow
  <2> DEFINE q == Retrying(msgs[m], NextAttempt(c), "other", "other")
  <2>2. q \in Row /\ Ended(q)
    BY <2>1, NextAttemptType, RetryingType, RetryingEnds DEF Errors, Reasons
  <2>3. PICK counted, ts, only :
          msgs' = [msgs EXCEPT ![m] =
            [q EXCEPT !.counted = counted, !.targets = ts, !.listed = TRUE, !.only = only]]
    BY <1>5 DEF RetryRejected
  <2> HIDE DEF q
  <2>4. Quiet([q EXCEPT !.counted = counted, !.targets = ts, !.listed = TRUE, !.only = only])
    BY <2>2 DEF Quiet, Ended, Row
  <2>5. QED
    BY <2>3, <2>4, PutQuiet
<1>6. CASE Accept(t)
  BY <1>6, AcceptWrites, PutQuiet DEF Quiet
<1>7. CASE GiveUp(t)
  <2>1. msgs[m] \in Row /\ tick[t].result.err \in Errors \cup {"none"}
    BY <1>7, AtRowType DEF GiveUp, Applying, AtRow, Results
  <2>2. PICK e, a :
          /\ e \in Errors \cup {"none"}
          /\ msgs' = [msgs EXCEPT ![m] = [Failed(msgs[m], e) EXCEPT !.attempts = a]]
    BY <1>7, <2>1 DEF GiveUp, Errors
  <2>3. Quiet([Failed(msgs[m], e) EXCEPT !.attempts = a])
    BY <2>1, <2>2, FailedType, FailedEnds, AttemptsKeepEnd, EndedIsOpen
  <2>4. QED
    BY <2>2, <2>3, PutQuiet
<1>8. CASE UpdateTargets(t)
  <2>1. Quiet(msgs[m])
    BY <1>8, AtRowType DEF UpdateTargets, AtRow, InProgressNotScheduled, Quiet
  <2>2. QED
    BY <1>8, <2>1, UpdateWrites, PutQuiet DEF Quiet
<1>9. CASE Settle(t)
  <2>1. msgs[m] \in Row /\ Quiet(msgs[m])
    BY <1>9, AtRowType DEF Settle, AtRow, InProgressNotScheduled, Quiet
  <2>2. Quiet(Failed(msgs[m], "other"))
    BY <2>1, FailedEnds, EndedIsOpen
  <2>3. ASSUME NEW state PROVE Quiet([Acknowledged(msgs[m]) EXCEPT !.state = state])
    BY <2>1, ClearedType DEF Acknowledged, Quiet, Row
  <2>4. PICK q : /\ msgs' = [msgs EXCEPT ![m] = q]
                 /\ \/ q = msgs[m] \/ q = Failed(msgs[m], "other")
                    \/ \E state : q = [Acknowledged(msgs[m]) EXCEPT !.state = state]
    BY <1>9 DEF Settle
  <2>5. Quiet(q)
    BY <2>1, <2>2, <2>3, <2>4
  <2>6. QED
    BY <2>4, <2>5, PutQuiet
<1>10. CASE FinalizeReceipts(t)
  <2>1. ASSUME NEW n \in Msgs PROVE Quiet(AfterReceiptTimeout(msgs[n]))
    BY ReceiptTimeoutStanding, EndedIsOpen, SameStandingKeeps DEF InProgressNotScheduled, Quiet
  <2>2. QED
    BY <1>10, <2>1 DEF FinalizeReceipts, InProgressNotScheduled, Quiet
<1>11. CASE \/ SelectDue(t) \/ DispatchAnswered(t) \/ DispatchErred(t) \/ CheckCurrent(t)
            \/ ScanReceipts(t) \/ LoopEnds(t) \/ \E n \in Msgs : PollStatus(t, n)
  BY <1>11, SameQuiet DEF SelectDue, DispatchAnswered, DispatchErred, CheckCurrent,
     ScanReceipts, LoopEnds, PollStatus
<1>12. QED
  BY <1>1, <1>2, <1>3, <1>4, <1>5, <1>6, <1>7, <1>8, <1>9, <1>10, <1>11 DEF TickStep

\* No adapter callback leaves a row both in progress and scheduled.
LEMMA AdapterStepQuiet ==
  ASSUME TypeOK, InProgressNotScheduled, NEW m \in Msgs, AdapterStep(m)
  PROVE  InProgressNotScheduled'
<1> DEFINE r == msgs[m]
<1>1. r \in Row /\ Quiet(r) /\ failing[m] \in Row
  BY DEF TypeOK, InProgressNotScheduled, Quiet
<1>2. CASE ReceiptCallback(m)
  <2>1. PICK state : msgs' = [msgs EXCEPT ![m] = [r EXCEPT !.state = state, !.pending = FALSE]]
    BY <1>2 DEF ReceiptCallback
  <2>2. Quiet([r EXCEPT !.state = state, !.pending = FALSE])
    BY <1>1 DEF Quiet, Row
  <2>3. QED
    BY <2>1, <2>2, PutQuiet
<1>3. CASE FailureRead(m)
  BY <1>3, SameQuiet DEF FailureRead
<1>4. CASE FailureWrite(m)
  <2>1. PICK reason, q :
          /\ reason \in FailureReasons
          /\ msgs' = [msgs EXCEPT ![m] = q]
          /\ \/ q = AfterFailureRetry(r, failing[m], reason)
             \/ q = [Failed(r, reason) EXCEPT !.retry = r.retry]
    BY <1>4 DEF FailureWrite
  <2>2. reason \in Errors
    BY <2>1, EnvironmentAssumption
  <2>3. Quiet(AfterFailureRetry(r, failing[m], reason))
    BY <1>1, <2>2, FailureRetryEnds, EndedIsOpen
  <2>4. Quiet([Failed(r, reason) EXCEPT !.retry = r.retry])
    BY <1>1, <2>2, FailedType, FailedEnds DEF Quiet, Ended, Row
  <2>5. QED
    BY <2>1, <2>3, <2>4, PutQuiet
<1>5. CASE RetryCallback(m)
  <2>1. PICK attempts, reason, due :
          msgs' = [msgs EXCEPT ![m] =
            [ClearedForRetry(r) EXCEPT !.state = "queued", !.status = "queued",
               !.retry = TRUE, !.attempts = attempts, !.reason = reason, !.pending = FALSE,
               !.due = due]]
    BY <1>5 DEF RetryCallback
  <2>2. Quiet([ClearedForRetry(r) EXCEPT !.state = "queued", !.status = "queued",
               !.retry = TRUE, !.attempts = attempts, !.reason = reason, !.pending = FALSE,
               !.due = due])
    BY <1>1, ClearedForRetryType DEF Quiet, Row
  <2>3. QED
    BY <2>1, <2>2, PutQuiet
<1>6. CASE PropagationCallback(m)
  <2>1. Quiet([r EXCEPT !.state = "queued", !.method = "propagated", !.status = "queued",
                        !.pending = FALSE, !.retry = FALSE])
    BY <1>1 DEF Quiet, Row
  <2>2. QED
    BY <1>6, <2>1, PutQuiet DEF PropagationCallback
<1>7. CASE DropCallback(m)
  <2>1. Quiet(Failed(r, r.error))
    BY <1>1, FailedEnds DEF Quiet
  <2>2. QED
    BY <1>7, <2>1, PutQuiet DEF DropCallback
<1>8. CASE AttemptCallback(m)
  <2>1. Quiet([ClearedForRetry(r) EXCEPT !.state = "queued", !.last = NoTick, !.retry = FALSE])
    BY <1>1, ClearedForRetryType DEF Quiet, Row
  <2>2. QED
    BY <1>8, <2>1, PutQuiet DEF AttemptCallback
<1>9. QED
  BY <1>2, <1>3, <1>4, <1>5, <1>6, <1>7, <1>8 DEF AdapterStep

\* No row is in progress and scheduled at once, however many ticks overlap and
\* whatever the adapter reports (lib.rs:15958).
THEOREM NeverInProgressAndScheduled == Spec => []InProgressNotScheduled
<1>1. Init => InProgressNotScheduled
  BY DEF Init, InProgressNotScheduled, Blank
<1>2. TypeOK /\ InProgressNotScheduled /\ [Next]_vars => InProgressNotScheduled'
  <2> SUFFICES ASSUME TypeOK, InProgressNotScheduled, [Next]_vars
               PROVE  InProgressNotScheduled'
    OBVIOUS
  <2>1. ASSUME NEW m \in Msgs, Record(m) PROVE InProgressNotScheduled'
    <3>1. PICK method :
            msgs' = [msgs EXCEPT ![m] = [Blank EXCEPT !.state = "queued", !.method = method,
                                           !.status = "queued", !.retry = TRUE]]
      BY <2>1 DEF Record
    <3>2. Quiet([Blank EXCEPT !.state = "queued", !.method = method,
                              !.status = "queued", !.retry = TRUE])
      BY DEF Quiet, Blank
    <3>3. QED
      BY <3>1, <3>2, PutQuiet
  <2>2. ASSUME NEW m \in Msgs, TimeStep(m) PROVE InProgressNotScheduled'
    <3>1. \/ msgs' = [msgs EXCEPT ![m] = [msgs[m] EXCEPT !.due = TRUE]]
          \/ msgs' = [msgs EXCEPT ![m] = [msgs[m] EXCEPT !.dexp = TRUE]]
          \/ msgs' = [msgs EXCEPT ![m] = [msgs[m] EXCEPT !.rexp = TRUE]]
      BY <2>2 DEF TimeStep, BackoffElapses, DispatchDeadline, ReceiptDeadline
    <3>2. Quiet(msgs[m]) /\ msgs[m] \in Row
      BY DEF TypeOK, InProgressNotScheduled, Quiet
    <3>3. /\ Quiet([msgs[m] EXCEPT !.due = TRUE]) /\ Quiet([msgs[m] EXCEPT !.dexp = TRUE])
          /\ Quiet([msgs[m] EXCEPT !.rexp = TRUE])
      BY <3>2, FlagsKeepStanding, SameStandingKeeps
    <3>4. QED
      BY <3>1, <3>3, PutQuiet
  <2>3. CASE CrashAndRestart
    <3>1. \A m \in Msgs : Quiet(Repaired(m, msgs[m]))
      BY RepairedStanding DEF TypeOK, InProgressNotScheduled, Quiet
    <3>2. QED
      BY <2>3, <3>1 DEF CrashAndRestart, InProgressNotScheduled, Quiet
  <2>4. CASE \/ \E t \in Ticks : TickOverdue(t)
             \/ \E m \in Msgs, d \in Dsts : RdProgress(m, d)
             \/ UNCHANGED vars
    BY <2>4, SameQuiet DEF TickOverdue, RdProgress, vars
  <2>5. QED
    BY <2>1, <2>2, <2>3, <2>4, TickStepQuiet, AdapterStepQuiet DEF Next
<1>3. QED
  BY <1>1, <1>2, TypeCorrect, PTL DEF Spec
=============================================================================
