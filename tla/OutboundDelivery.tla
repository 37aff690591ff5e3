-------------------------- MODULE OutboundDelivery --------------------------
(***************************************************************************)
(* The outbound delivery lifecycle of the hub server                       *)
(* (crates/r3akt-rch-server/src/lib.rs): a northbound request admits a     *)
(* message, the worker tick dispatches it to reticulumd through the ZeroMQ *)
(* data plane, schedules retries and fallbacks, polls delivery receipts    *)
(* and expires what never settles, while the callbacks of the reticulumd   *)
(* adapter rewrite the same message rows.                                  *)
(*                                                                         *)
(* Every message row is guarded by one lock, and no tick holds it across a *)
(* call to reticulumd: an action is what happens under one acquisition of  *)
(* the lock, or one answer of reticulumd.                                  *)
(*                                                                         *)
(* There is no clock.  A deadline or a backoff is a flag that a "time"     *)
(* action raises: due, dexp and rexp of a row, overdue of a tick.          *)
(***************************************************************************)
EXTENDS Naturals, FiniteSets

CONSTANTS
  Msgs,             \* messages
  Dsts,             \* destinations
  Recipients,       \* the destinations a message resolves to
  Multi,            \* topic fanouts and broadcasts
  Rem,              \* REM command messages
  Unreceipted,      \* messages with delivery_receipt_required = false
  Methods,          \* the delivery methods the policy may choose
  Parent,           \* stands for the message's own id in a receipt list
  Ticks,            \* slots for worker ticks that are in flight at once
  NoTick,           \* the last_attempt mark of nobody's tick
  NoMsg,            \* "no message"
  Callbacks,        \* the adapter callbacks that may arrive
  FailureReasons,   \* the reasons of a failure callback
  SendErrors,       \* the errors a dispatch may end with
  RdOutcomes,       \* what reticulumd may report of an admitted recipient
  RetryMax,         \* OUTBOUND_RETRY_MAX_ATTEMPTS
  MultiMax,         \* OUTBOUND_PROPAGATED_MULTI_RECIPIENT_RETRY_MAX_ATTEMPTS
  FallbackMax,      \* OUTBOUND_PROPAGATION_FALLBACK_RETRY_MAX_ATTEMPTS
  LimitMax,         \* OUTBOUND_RATE_LIMIT_RETRY_MAX_ATTEMPTS
  ExtMax,           \* OUTBOUND_RECEIPT_ACTIVE_EXTENSION_MAX
  AttemptCap,       \* bound: attempts saturate here
  SendCap,          \* bound: the counter of dispatches saturates here
  CallBudget,       \* bound: callbacks of the adapter
  CrashBudget       \* bound: crashes of the server

Keys == Dsts \cup {Parent}
Errors == {"send_timeout", "rate_limited", "transport", "other"}
Reasons == {"none", "retryable", "rate_limited", "other"}
Statuses == {"pending", "sent", "delivered", "failed", "unannounced", "waiting"}
Reports == {"sent", "delivered", "failed", "unannounced"}

ASSUME MessageAssumption ==
  /\ Recipients \in [Msgs -> SUBSET Dsts]
  /\ Multi \subseteq Msgs /\ Rem \subseteq Msgs /\ Unreceipted \subseteq Msgs
  /\ \A m \in Msgs \ Multi : \A d, e \in Recipients[m] : d = e
  /\ Parent \notin Dsts /\ NoTick \notin Ticks /\ NoMsg \notin Msgs
  /\ Methods \subseteq {"direct", "auto", "propagated"}
ASSUME EnvironmentAssumption ==
  /\ Callbacks \subseteq {"receipt", "failure", "retry", "propagation", "drop", "attempt"}
  /\ FailureReasons \subseteq Errors /\ SendErrors \subseteq Errors
  /\ RdOutcomes \subseteq Reports
ASSUME BoundAssumption ==
  /\ RetryMax \in Nat \ {0} /\ MultiMax \in Nat /\ FallbackMax \in Nat
  /\ LimitMax \in Nat /\ ExtMax \in Nat /\ AttemptCap \in Nat
  /\ SendCap \in Nat /\ CallBudget \in Nat /\ CrashBudget \in Nat

VARIABLES
  msgs,      \* the message rows (AppState.messages, persisted with each write)
  tick,      \* the local state of each worker tick
  failing,   \* failure callbacks between their read and their write
  rd,        \* what reticulumd knows of each recipient
  handed,    \* history: how often reticulumd admitted each recipient (0..2)
  lost,      \* history: admissions whose answer the hub did not record
  sends,     \* history: dispatches started (saturates at SendCap)
  calls,     \* callbacks so far
  crashes    \* crashes so far

vars == <<msgs, tick, failing, rd, handed, lost, sends, calls, crashes>>
truth == <<rd, handed, lost>>
budgets == <<calls, crashes>>

Min2(a, b) == IF a < b THEN a ELSE b
Max2(a, b) == IF a < b THEN b ELSE a

NoTargets == [k \in Keys |-> "none"]

\* A message row: delivery_state, delivery_method, and the delivery_metadata
\* the control flow reads.
Row == [state : {"absent", "queued", "sent", "delivered", "propagating", "propagated", "failed"},
        method : {"direct", "auto", "propagated"},
        fallback : BOOLEAN,  \* policy reason is *_direct_timeout_fallback
        status : {"none", "queued", "in_progress", "accepted", "failed"},
        retry : BOOLEAN,     \* retry_scheduled
        due : BOOLEAN,       \* next_attempt_at_ts_ms has passed
        attempts : 0 .. AttemptCap,
        budget : BOOLEAN,    \* rate_limit_retry_budget
        error : Errors \cup {"none"},
        reason : Reasons,    \* retry_reason
        only : SUBSET Dsts,  \* target_destinations, {} for null
        targets : [Keys -> Statuses \cup {"none"}],
        listed : BOOLEAN,    \* reticulumd_receipt_targets is an array
        counted : BOOLEAN,   \* reticulumd_dispatch_count > 0
        pending : BOOLEAN,   \* receipt_pending
        rexp : BOOLEAN,      \* receipt_deadline_ts_ms has passed
        ext : 0 .. ExtMax,   \* receipt_active_extension_count
        last : Ticks \cup {NoTick},  \* last_attempt_at_ts_ms
        dexp : BOOLEAN]      \* dispatch_deadline_ts_ms has passed

Blank == [state |-> "absent", method |-> "direct", fallback |-> FALSE, status |-> "none",
          retry |-> FALSE, due |-> TRUE, attempts |-> 0, budget |-> FALSE, error |-> "none",
          reason |-> "none", only |-> {}, targets |-> NoTargets, listed |-> FALSE,
          counted |-> FALSE, pending |-> FALSE, rexp |-> FALSE, ext |-> 0, last |-> NoTick,
          dexp |-> FALSE]

\* What dispatch_outbound_message returned: the recipients admitted, those
\* rejected with a retryable error (the other rejections are final), or an error.
Results == [kind : {"none", "ok", "error"}, acc : SUBSET Dsts, again : SUBSET Dsts,
            err : Errors \cup {"none"}]
NoResult == [kind |-> "none", acc |-> {}, again |-> {}, err |-> "none"]

TickLocals == [pc : {"idle", "select", "due", "wait", "check", "apply",
                     "scan", "poll", "update", "verdict", "receipts"},
               cur : Msgs \cup {NoMsg},
               work : SUBSET Msgs,
               snap : [Msgs -> Row],   \* the clones taken under the read lock
               result : Results,
               seen : [Keys -> Statuses \cup {"none"}],
               overdue : BOOLEAN]      \* the worker stopped waiting for it
IdleTick == [pc |-> "idle", cur |-> NoMsg, work |-> {}, snap |-> [m \in Msgs |-> Blank],
             result |-> NoResult, seen |-> NoTargets, overdue |-> FALSE]

-----------------------------------------------------------------------------
(* What the code reads off a row.                                          *)

PartialOk(m, r) == m \in Multi /\ r.method = "propagated"

RetryableText(e) == e \in {"send_timeout", "rate_limited", "transport"}

HasRetryableError(r) == r.reason \in {"retryable", "rate_limited"} \/ RetryableText(r.error)

Fallback(m, r) == PartialOk(m, r) /\ r.fallback

BudgetActive(r) == r.budget \/ r.reason = "rate_limited" \/ r.error = "rate_limited"

MaxAttempts(m, r, limited) ==
  LET multi == IF m \in Rem \/ PartialOk(m, r) THEN Max2(RetryMax, MultiMax) ELSE RetryMax
      fallback == IF Fallback(m, r) THEN Max2(multi, FallbackMax) ELSE multi
  IN  IF limited \/ BudgetActive(r) THEN Max2(fallback, LimitMax) ELSE fallback

\* The next attempt is compared with <= for a propagated multi-recipient
\* message and with < for any other.
AllowedAtLimit(m, r, limited) == r.attempts + 1 <= MaxAttempts(m, r, limited)  \* mutant
Allowed(m, r, limited) ==
  IF PartialOk(m, r) THEN r.attempts + 1 <= MaxAttempts(m, r, limited)
                     ELSE r.attempts + 1 < MaxAttempts(m, r, limited)

NextAttempt(r) == Min2(r.attempts + 1, AttemptCap)

DirectTimeoutDue(m, r) ==
  /\ r.state = "failed" /\ r.status = "failed" /\ r.due
  /\ m \in Multi /\ r.method = "direct" /\ r.error = "send_timeout"

\* Whatever attempts it has made: its last conjunct is met by every fallback.
FallbackRetryDue(m, r) ==
  /\ r.state = "failed" /\ r.status # "in_progress" /\ r.due
  /\ Fallback(m, r) /\ HasRetryableError(r) /\ ~r.counted

\* mutant: a schedule is followed whatever the state
RetryDueAnyState(m, r) == r.state # "absent" /\ r.retry /\ r.due
RetryDue(m, r) ==
  \/ r.state = "queued" /\ r.retry /\ r.due
  \/ DirectTimeoutDue(m, r)
  \/ FallbackRetryDue(m, r)

\* mutant: queued dispatches an adapter has marked are forgotten
DispatchPendingOwn(m, r) == r.status = "in_progress" /\ r.state = "queued" /\ r.last # NoTick
DispatchPending(m, r) ==
  /\ r.status = "in_progress"
  /\ \/ r.state = "queued"
     \/ r.state = "failed" /\ Fallback(m, r) /\ HasRetryableError(r)

\* outbound_destinations: the target destinations of a multi-recipient row
\* replace the subscribers; a targeted message has its own destination.
DestinationsAll(m, r) == Recipients[m]  \* mutant: the targets of the retry are ignored
Destinations(m, r) ==
  IF m \in Multi /\ r.only # {} THEN Recipients[m] \cap r.only ELSE Recipients[m]

SuccessTerminal(s) == s \in {"sent", "delivered"}
FailureTerminal(s) == s \in {"failed", "unannounced"}
StillActive(s) == s = "pending"

Listed(targets) == {k \in Keys : targets[k] # "none"}

\* The receipt list of a row.  A row without one gets one target under the
\* message's own id, which reticulumd knows only of a targeted message.
PlaceholderKey(m) == IF m \in Multi THEN {Parent} ELSE Recipients[m]
TargetsOf(m, r) ==
  IF Listed(r.targets) # {} THEN r.targets
  ELSE [k \in Keys |-> IF k \in PlaceholderKey(m) THEN "pending" ELSE "none"]

StoredTargets(m, r) == IF r.listed THEN TargetsOf(m, r) ELSE NoTargets

WithAccepted(targets, acc) ==
  [k \in Keys |-> IF targets[k] = "none" /\ k \in acc THEN "pending" ELSE targets[k]]

ActiveDispatch(m, r) ==
  LET ks == Listed(r.targets)
  IN  /\ Fallback(m, r) /\ HasRetryableError(r)
      /\ \E k \in ks : StillActive(r.targets[k])
      /\ \A k \in ks : ~SuccessTerminal(r.targets[k])

PollCandidate(m, r) ==
  /\ r.state \notin {"absent", "delivered"}
  /\ r.state = "failed" => ActiveDispatch(m, r)
  /\ r.pending \/ (r.counted /\ \E k \in Keys : StillActive(TargetsOf(m, r)[k]))

SuccessState(r) == IF r.method = "propagated" THEN "propagated" ELSE "sent"

\* clear_success_superseded_delivery_metadata and, with the receipt list,
\* clear_retry_superseded_delivery_metadata
Cleared(r) == [r EXCEPT !.error = "none", !.reason = "none"]
ClearedForRetry(r) ==
  [Cleared(r) EXCEPT !.targets = NoTargets, !.listed = FALSE, !.dexp = FALSE]

-----------------------------------------------------------------------------
(* What the code writes to a row.                                          *)

\* queue_direct_timeout_for_propagation
ForPropagation(r) ==
  [r EXCEPT !.state = "queued", !.method = "propagated", !.fallback = TRUE, !.status = "queued",
            !.attempts = 0, !.error = "send_timeout", !.reason = "retryable",
            !.pending = FALSE, !.retry = TRUE, !.due = TRUE]

Retrying(r, attempts, error, reason) ==
  [r EXCEPT !.state = "queued", !.status = "queued", !.attempts = attempts, !.error = error,
            !.reason = reason, !.pending = FALSE, !.retry = TRUE, !.due = FALSE]

Failed(r, error) ==
  [r EXCEPT !.state = "failed", !.status = "failed", !.error = error,
            !.pending = FALSE, !.retry = FALSE]

\* the receipt and the success of a poll, but for the state
AcknowledgedStillPending(r) == [Cleared(r) EXCEPT !.status = "accepted"]  \* mutant
Acknowledged(r) == [Cleared(r) EXCEPT !.status = "accepted", !.pending = FALSE]

\* mark_outbound_attempt_started; the deadline of a tick nobody waits for any
\* more may have passed when it starts, for its "now" is that of its first read
StartedStillScheduled(r, t, expired) ==  \* mutant
  [ClearedForRetry(r) EXCEPT !.state = "queued", !.status = "in_progress",
                             !.last = t, !.dexp = expired]
Started(r, t, expired) ==
  [ClearedForRetry(r) EXCEPT !.state = "queued", !.status = "in_progress", !.retry = FALSE,
                             !.last = t, !.dexp = expired]

\* finalize_stale_pending_dispatches, of one row
AfterDispatchTimeout(m, r) ==
  IF m \in Multi /\ r.method = "direct" THEN ForPropagation(ClearedForRetry(r))
  ELSE LET late == [r EXCEPT !.dexp = FALSE]
       IN  IF (r.method # "propagated" \/ m \in Rem \/ m \in Multi) /\ Allowed(m, r, FALSE)
           THEN Retrying(late, NextAttempt(r), "send_timeout", "retryable")
           ELSE [Failed(late, "send_timeout") EXCEPT !.attempts = NextAttempt(r)]

\* finalize_expired_delivery_receipts, of one row: only a stored status extends
AfterReceiptTimeoutOnePast(r) ==  \* mutant
  IF r.ext <= ExtMax THEN [r EXCEPT !.ext = r.ext + 1, !.rexp = FALSE] ELSE Failed(r, "other")
AfterReceiptTimeoutUncounted(r) ==  \* mutant
  IF \E k \in Keys : StillActive(r.targets[k]) THEN [r EXCEPT !.rexp = FALSE]
  ELSE Failed(r, "other")
AfterReceiptTimeout(r) ==
  IF r.ext < ExtMax /\ \E k \in Keys : StillActive(r.targets[k])
  THEN [r EXCEPT !.ext = r.ext + 1, !.rexp = FALSE]
  ELSE [Failed(r, "other") EXCEPT !.attempts = NextAttempt(r)]

\* outbound_retry_reason: retry_reason_for_error
ReasonFor(error) == IF error = "rate_limited" THEN "rate_limited" ELSE "retryable"

\* schedule_outbound_retry_after_failure, decided on the caller's clone c; the
\* local-transport clause of a broadcast fallback is part of the retryable texts
MayRetryFailure(m, c, error) ==
  /\ c.method = "propagated" => m \in Rem \cup Multi
  /\ \/ Allowed(m, c, error = "rate_limited")
     \/ Fallback(m, c) /\ RetryableText(error)
AfterFailureRetry(r, c, error) ==
  [Retrying(r, NextAttempt(c), error, ReasonFor(error)) EXCEPT
     !.budget = (error = "rate_limited" \/ BudgetActive(c))]

-----------------------------------------------------------------------------
(* Admission: the deferred path of record_outbound_message_with_metadata.  *)

Record(m) ==
  /\ msgs[m].state = "absent"
  /\ \E method \in Methods \cap (IF m \in Rem THEN {"auto", "propagated"}
                                                  ELSE {"direct", "propagated"}) :
       msgs' = [msgs EXCEPT ![m] = [Blank EXCEPT !.state = "queued", !.method = method,
                                                 !.status = "queued", !.retry = TRUE]]
  /\ UNCHANGED <<tick, failing, truth, sends, budgets>>

-----------------------------------------------------------------------------
(* The worker tick: process_outbound_delivery_worker_tick.                 *)

Live(m) == msgs[m].state # "absent"

\* the tick is done with row m; next is where it goes on
DoneWith(t, m, next) ==
  tick' = [tick EXCEPT ![t] = [IdleTick EXCEPT !.pc = next, !.work = tick[t].work \ {m},
             !.snap = [tick[t].snap EXCEPT ![m] = Blank], !.overdue = tick[t].overdue]]

\* The worker starts a tick when the previous one has returned, or 31 seconds
\* after it started: the timeout drops the handle of the blocking task, not the
\* task.  The tick finalizes every stale dispatch under one write lock.
StartTick(t) ==
  /\ tick[t].pc = "idle"
  /\ \A u \in Ticks \ {t} : tick[u].pc = "idle" \/ tick[u].overdue
  /\ tick' = [tick EXCEPT ![t].pc = "select"]
  /\ msgs' = [m \in Msgs |-> IF DispatchPending(m, msgs[m]) /\ msgs[m].dexp
                             THEN AfterDispatchTimeout(m, msgs[m]) ELSE msgs[m]]
  /\ UNCHANGED <<failing, truth, sends, budgets>>

\* process_due_outbound_retry_messages: clone the due rows.  The receipts are
\* looked at only by a tick that found nothing due.
SelectDue(t) ==
  /\ tick[t].pc = "select"
  /\ LET due == {m \in Msgs : RetryDue(m, msgs[m])}
     IN  tick' = [tick EXCEPT
           ![t].pc = IF due = {} THEN "scan" ELSE "due",
           ![t].work = due,
           ![t].snap = [m \in Msgs |-> IF m \in due THEN msgs[m] ELSE Blank]]
  /\ UNCHANGED <<msgs, failing, truth, sends, budgets>>

\* a failed direct timeout is queued for propagation instead of dispatched
RepairDirectTimeout(t, m) ==
  /\ tick[t].pc = "due" /\ m \in tick[t].work
  /\ DirectTimeoutDue(m, tick[t].snap[m])
  /\ msgs' = [msgs EXCEPT ![m] = ForPropagation(msgs[m])]
  /\ DoneWith(t, m, "due")
  /\ UNCHANGED <<failing, truth, sends, budgets>>

\* mark_outbound_attempt_started: the row as it is now is marked, whatever has
\* become of it since the clone was taken
BeginAttempt(t, m) ==
  /\ tick[t].pc = "due" /\ m \in tick[t].work
  /\ ~DirectTimeoutDue(m, tick[t].snap[m])
  /\ \E expired \in (IF tick[t].overdue THEN BOOLEAN ELSE {FALSE}) :
       msgs' = [msgs EXCEPT ![m] = Started(msgs[m], t, expired)]
  /\ tick' = [tick EXCEPT ![t].pc = "wait", ![t].cur = m]
  /\ sends' = [sends EXCEPT ![m] = Min2(@ + 1, SendCap)]
  /\ UNCHANGED <<failing, truth, budgets>>

\* reticulumd admits the recipients S of m
Admit(m, S) ==
  /\ rd' = [rd EXCEPT ![m] = [k \in Keys |-> IF k \in S THEN "active" ELSE rd[m][k]]]
  /\ handed' = [handed EXCEPT ![m] = [d \in Dsts |-> IF d \in S THEN Min2(handed[m][d] + 1, 2)
                                                                ELSE handed[m][d]]]

\* dispatch_outbound_message: a batch (several recipients, or propagated) is
\* answered per recipient; a single direct message is admitted or is an error.
\* A timeout or a lost connection may hide an admission from the hub.
DispatchAnswered(t) ==
  /\ tick[t].pc = "wait"
  /\ LET m == tick[t].cur
         c == tick[t].snap[m]
         D == Destinations(m, c)
         batch == Cardinality(D) > 1 \/ c.method = "propagated"
     IN  \E acc, again \in SUBSET D :
           /\ acc \cap again = {}
           /\ ~batch => acc = D
           /\ Admit(m, acc)
           /\ tick' = [tick EXCEPT ![t].pc = "check",
                ![t].result = [NoResult EXCEPT !.kind = "ok", !.acc = acc, !.again = again]]
  /\ UNCHANGED <<msgs, failing, lost, sends, budgets>>

DispatchErred(t) ==
  /\ tick[t].pc = "wait"
  /\ LET m == tick[t].cur
         D == Destinations(m, tick[t].snap[m])
     IN  /\ D # {}
         /\ \E acc \in SUBSET D, error \in SendErrors :
              /\ Admit(m, acc)
              /\ lost' = lost \cup ({m} \X acc)
              /\ tick' = [tick EXCEPT ![t].pc = "check",
                   ![t].result = [NoResult EXCEPT !.kind = "error", !.err = error]]
  /\ UNCHANGED <<msgs, failing, sends, budgets>>

\* outbound_dispatch_attempt_still_current: a result of an attempt that has been
\* superseded is dropped.  The read lock is released before the result is applied.
CheckCurrent(t) ==
  /\ tick[t].pc = "check"
  /\ LET m == tick[t].cur
         c == tick[t].snap[m]
         r == msgs[m]
     IN  IF /\ r.state = "queued" /\ r.status = "in_progress" /\ r.last = t
            /\ r.method = c.method /\ r.fallback = c.fallback
         THEN /\ tick' = [tick EXCEPT ![t].pc = "apply"]
              /\ UNCHANGED lost
         ELSE /\ DoneWith(t, m, "due")
              /\ lost' = lost \cup ({m} \X tick[t].result.acc)
  /\ UNCHANGED <<msgs, failing, rd, handed, sends, budgets>>

\* schedule_zmq_pre_admission_retry is allowed by the clone's attempts alone
RejectedMayRetry(m, c, again) == again # {} /\ Allowed(m, c, FALSE)

Applying(t) == tick[t].pc = "apply"

\* the dispatch failed and is scheduled again
RetryFailure(t) ==
  /\ Applying(t) /\ tick[t].result.kind = "error"
  /\ LET m == tick[t].cur
         c == tick[t].snap[m]
         error == tick[t].result.err
     IN  /\ MayRetryFailure(m, c, error)
         /\ msgs' = [msgs EXCEPT ![m] = AfterFailureRetry(msgs[m], c, error)]
         /\ DoneWith(t, m, "due")
  /\ UNCHANGED <<failing, truth, sends, budgets>>

\* schedule_zmq_pre_admission_retry: only the recipients whose rejection is
\* retryable are targets of the next attempt
RetryRejected(t) ==
  /\ Applying(t) /\ tick[t].result.kind = "ok"
  /\ LET m == tick[t].cur
         c == tick[t].snap[m]
         acc == tick[t].result.acc
         again == tick[t].result.again
     IN  /\ RejectedMayRetry(m, c, again)
         /\ msgs' = [msgs EXCEPT ![m] =
              [Retrying(@, NextAttempt(c), "other", "other") EXCEPT
                 !.counted = c.counted \/ acc # {},
                 !.targets = WithAccepted(StoredTargets(m, c), acc),
                 !.listed = TRUE,
                 !.only = again]]
         /\ DoneWith(t, m, "due")
  /\ UNCHANGED <<failing, truth, sends, budgets>>

\* some recipient was admitted and none is to be retried
Accept(t) ==
  /\ Applying(t) /\ tick[t].result.acc # {}
  /\ LET m == tick[t].cur
         c == tick[t].snap[m]
         acc == tick[t].result.acc
         wanted == /\ m \notin Unreceipted
                   /\ c.method = "propagated" => m \notin Multi
     IN  /\ ~RejectedMayRetry(m, c, tick[t].result.again)
         /\ msgs' = [msgs EXCEPT ![m] =
              [Cleared(msgs[m]) EXCEPT
                 !.state = IF c.method = "propagated" THEN "propagating" ELSE "sent",
                 !.status = "accepted", !.attempts = c.attempts, !.counted = TRUE,
                 !.targets = WithAccepted(StoredTargets(m, c), acc), !.listed = TRUE,
                 !.only = {}, !.pending = wanted, !.rexp = msgs[m].rexp /\ ~wanted,
                 !.retry = FALSE]]
         /\ DoneWith(t, m, "due")
  /\ UNCHANGED <<failing, truth, sends, budgets>>

\* mark_outbound_dispatch_failed: an error, or every recipient rejected, and no
\* attempt left
GiveUp(t) ==
  /\ Applying(t) /\ tick[t].result.acc = {}
  /\ LET m == tick[t].cur
         c == tick[t].snap[m]
         res == tick[t].result
     IN  /\ res.kind = "error" => ~MayRetryFailure(m, c, res.err)
         /\ res.kind = "ok" => ~RejectedMayRetry(m, c, res.again)
         /\ msgs' = [msgs EXCEPT ![m] =
              [Failed(@, IF res.kind = "error" THEN res.err ELSE "other") EXCEPT
                 !.attempts = c.attempts]]
         /\ DoneWith(t, m, "due")
  /\ UNCHANGED <<failing, truth, sends, budgets>>

\* poll_reticulumd_delivery_receipts: the pass interval and the interval of each
\* row leave some subset of the candidates for this tick
ScanReceipts(t) ==
  /\ tick[t].pc = "scan"
  /\ \E S \in SUBSET {m \in Msgs : PollCandidate(m, msgs[m]) /\ msgs[m].counted} :
       tick' = [tick EXCEPT
         ![t].pc = "poll", ![t].work = S,
         ![t].snap = [m \in Msgs |-> IF m \in S THEN msgs[m] ELSE Blank]]
  /\ UNCHANGED <<msgs, failing, truth, sends, budgets>>

\* The status budget of a pass, or an error, may leave targets unasked.  A
\* target reticulumd does not know adds nothing; a terminal one is kept.
PollStatus(t, m) ==
  /\ tick[t].pc = "poll" /\ m \in tick[t].work
  /\ LET targets == TargetsOf(m, tick[t].snap[m])
         terminal == {k \in Keys : SuccessTerminal(targets[k]) \/ FailureTerminal(targets[k])}
     IN  \E asked \in SUBSET (Listed(targets) \ terminal) :
           LET seen == [k \in Keys |->
                          IF k \in terminal THEN targets[k]
                          ELSE IF k \in asked
                               THEN IF rd[m][k] = "active" THEN "pending" ELSE rd[m][k]
                               ELSE "none"]
           IN  IF Listed(seen) = {} THEN DoneWith(t, m, "poll")
               ELSE tick' = [tick EXCEPT ![t].pc = "update", ![t].cur = m, ![t].seen = seen]
  /\ UNCHANGED <<msgs, failing, truth, sends, budgets>>

\* update_reticulumd_receipt_target_statuses
UpdateTargets(t) ==
  /\ tick[t].pc = "update"
  /\ LET m == tick[t].cur
         r == msgs[m]
         seen == tick[t].seen
         targets == TargetsOf(m, r)
     IN  msgs' = [msgs EXCEPT ![m] =
           IF ~PollCandidate(m, r) THEN r
           ELSE [r EXCEPT !.listed = TRUE,
                   !.targets = [k \in Keys |->
                      IF targets[k] = "none" \/ seen[k] = "none" THEN targets[k]
                      ELSE IF seen[k] = "unannounced" /\ PartialOk(m, r) THEN "waiting"
                      ELSE seen[k]]]]
  /\ tick' = [tick EXCEPT ![t].pc = "verdict"]
  /\ UNCHANGED <<failing, truth, sends, budgets>>

\* what the statuses seen of clone c amount to
VerdictFirstAnswer(m, c, seen) == "sent"  \* mutant: any answer settles the message
Verdict(m, c, seen) ==
  LET got == Listed(seen)
      complete == got = Listed(TargetsOf(m, c))
      success == \E k \in got : SuccessTerminal(seen[k])
      failure == \E k \in got : FailureTerminal(seen[k])
      \* a peer that was not announced is no failure where partial success counts
      open == \E k \in got : ~SuccessTerminal(seen[k]) /\ seen[k] # "failed"
      active == \E k \in got : seen[k] \in {"pending", "waiting"}
  IN  CASE complete /\ \A k \in got : seen[k] = "delivered" -> "receipt"
        [] complete /\ (\A k \in got : SuccessTerminal(seen[k]))
                    /\ (\E k \in got : seen[k] # "delivered") -> "sent"
        [] complete /\ PartialOk(m, c) /\ failure /\ success /\ ~active -> "sent"
        [] complete /\ PartialOk(m, c) /\ failure /\ ~success /\ ~open -> "failed"
        [] ~PartialOk(m, c) /\ failure -> "failed"
        [] OTHER -> "none"

\* mark_reticulumd_status_delivery_receipt, _sent and _delivery_failure: a row
\* that is delivered or failed by now is left alone, any other is settled
Settle(t) ==
  /\ tick[t].pc = "verdict"
  /\ LET m == tick[t].cur
         r == msgs[m]
         verdict == Verdict(m, tick[t].snap[m], tick[t].seen)
     IN  /\ msgs' = [msgs EXCEPT ![m] =
              IF r.state \in {"delivered", "failed"} \/ verdict = "none" THEN r
              ELSE IF verdict = "failed" THEN Failed(r, "other")
              ELSE IF verdict = "receipt" /\ r.method # "propagated"
                   THEN [Acknowledged(r) EXCEPT !.state = "delivered"]
              ELSE [Acknowledged(r) EXCEPT !.state = SuccessState(r)]]
         /\ DoneWith(t, m, "poll")
  /\ UNCHANGED <<failing, truth, sends, budgets>>

\* both loops of the tick end when their clones are used up
LoopEnds(t) ==
  /\ tick[t].pc \in {"due", "poll"} /\ tick[t].work = {}
  /\ tick' = [tick EXCEPT ![t] = IF tick[t].pc = "due" THEN IdleTick
                                 ELSE [tick[t] EXCEPT !.pc = "receipts"]]
  /\ UNCHANGED <<msgs, failing, truth, sends, budgets>>

\* finalize_expired_delivery_receipts, whatever state the row is in
FinalizeReceipts(t) ==
  /\ tick[t].pc = "receipts"
  /\ msgs' = [m \in Msgs |-> IF msgs[m].pending /\ msgs[m].rexp
                             THEN AfterReceiptTimeout(msgs[m]) ELSE msgs[m]]
  /\ tick' = [tick EXCEPT ![t] = IdleTick]
  /\ UNCHANGED <<failing, truth, sends, budgets>>

-----------------------------------------------------------------------------
(* The callbacks of the reticulumd adapter.  They name any recorded        *)
(* message, and look at neither its state nor the attempt under way.       *)

CallbackOn(kind, m) ==
  /\ kind \in Callbacks /\ calls < CallBudget /\ Live(m)
  /\ calls' = calls + 1

Adapter == UNCHANGED <<tick, truth, sends, crashes>>

ReceiptCallback(m) ==
  /\ CallbackOn("receipt", m)
  /\ \E state \in {"delivered", "propagated"} :
       msgs' = [msgs EXCEPT ![m].state = state, ![m].pending = FALSE]
  /\ Adapter /\ UNCHANGED failing

\* The failure handler clones the row, decides on the clone, and writes later.
FailureRead(m) ==
  /\ CallbackOn("failure", m) /\ failing[m].state = "absent"
  /\ failing' = [failing EXCEPT ![m] = msgs[m]]
  /\ Adapter /\ UNCHANGED msgs

FailureWrite(m) ==
  /\ failing[m].state # "absent"
  /\ LET c == failing[m]
     IN  \E reason \in FailureReasons :
           msgs' = [msgs EXCEPT ![m] =
             IF c.method = "propagated" /\ MayRetryFailure(m, c, reason)
             THEN AfterFailureRetry(@, c, reason)
             ELSE [Failed(@, reason) EXCEPT !.retry = msgs[m].retry]]
  /\ failing' = [failing EXCEPT ![m] = Blank]
  /\ Adapter /\ UNCHANGED calls

RetryCallback(m) ==
  /\ CallbackOn("retry", m)
  /\ \E attempts \in {0, NextAttempt(msgs[m])}, reason \in {"retryable", "other"},
        due \in BOOLEAN :
       msgs' = [msgs EXCEPT ![m] =
         [ClearedForRetry(@) EXCEPT !.state = "queued", !.status = "queued", !.retry = TRUE,
            !.attempts = attempts, !.reason = reason, !.pending = FALSE, !.due = due]]
  /\ Adapter /\ UNCHANGED failing

\* queued for propagation, and not scheduled
PropagationCallback(m) ==
  /\ CallbackOn("propagation", m)
  /\ msgs' = [msgs EXCEPT ![m] = [@ EXCEPT !.state = "queued", !.method = "propagated",
                                   !.status = "queued", !.pending = FALSE, !.retry = FALSE]]
  /\ Adapter /\ UNCHANGED failing

DropCallback(m) ==
  /\ CallbackOn("drop", m)
  /\ msgs' = [msgs EXCEPT ![m] = Failed(@, msgs[m].error)]
  /\ Adapter /\ UNCHANGED failing

AttemptCallback(m) ==
  /\ CallbackOn("attempt", m)
  /\ msgs' = [msgs EXCEPT ![m] =
       [ClearedForRetry(@) EXCEPT !.state = "queued", !.last = NoTick, !.retry = FALSE]]
  /\ Adapter /\ UNCHANGED failing

-----------------------------------------------------------------------------
(* Time, reticulumd and crashes.                                           *)

Passing == UNCHANGED <<failing, truth, sends, budgets>>

BackoffElapses(m) ==
  /\ Live(m) /\ ~msgs[m].due
  /\ msgs' = [msgs EXCEPT ![m].due = TRUE]
  /\ UNCHANGED tick /\ Passing

DispatchDeadline(m) ==
  /\ msgs[m].status = "in_progress" /\ ~msgs[m].dexp
  /\ msgs' = [msgs EXCEPT ![m].dexp = TRUE]
  /\ UNCHANGED tick /\ Passing

ReceiptDeadline(m) ==
  /\ msgs[m].pending /\ ~msgs[m].rexp
  /\ msgs' = [msgs EXCEPT ![m].rexp = TRUE]
  /\ UNCHANGED tick /\ Passing

\* 31 seconds have gone by since the worker started the tick: they were spent in
\* calls to reticulumd, each of which may take that long
TickOverdue(t) ==
  /\ tick[t].pc \in {"wait", "poll"} /\ ~tick[t].overdue
  /\ tick' = [tick EXCEPT ![t].overdue = TRUE]
  /\ UNCHANGED msgs /\ Passing

\* reticulumd reports on a recipient it admitted
RdProgress(m, d) ==
  /\ rd[m][d] \in {"active", "unannounced"}
  /\ \E s \in RdOutcomes \ {rd[m][d]} : rd' = [rd EXCEPT ![m][d] = s]
  /\ UNCHANGED <<msgs, tick, failing, handed, lost, sends, budgets>>

\* repair_success_superseded_outbound_metadata, of one row
Repaired(m, r) ==
  IF r.state \notin {"sent", "delivered", "propagating", "propagated"} THEN r
  ELSE LET all == Listed(r.targets)
           kept == {k \in all : SuccessTerminal(r.targets[k]) \/ FailureTerminal(r.targets[k])}
       IN  IF /\ PartialOk(m, r) /\ Cardinality(all) > 1 /\ kept # all
              /\ \E k \in all : SuccessTerminal(r.targets[k])
           THEN [Cleared(r) EXCEPT !.pending = FALSE, !.counted = TRUE,
                   !.targets = [k \in Keys |-> IF k \in kept THEN r.targets[k] ELSE "none"]]
           ELSE Cleared(r)

Handing(t) == {tick[t].cur} \X Destinations(tick[t].cur, tick[t].snap[tick[t].cur])

\* The process dies and starts again from the persisted rows.  What it had sent
\* may or may not have been admitted; an admission it had not recorded is lost.
CrashAndRestart ==
  /\ crashes < CrashBudget
  /\ crashes' = crashes + 1
  /\ \E S \in SUBSET UNION {Handing(t) : t \in {u \in Ticks : tick[u].pc = "wait"}} :
       /\ rd' = [m \in Msgs |-> [k \in Keys |-> IF <<m, k>> \in S THEN "active" ELSE rd[m][k]]]
       /\ handed' = [m \in Msgs |-> [d \in Dsts |->
                       IF <<m, d>> \in S THEN Min2(handed[m][d] + 1, 2) ELSE handed[m][d]]]
       /\ lost' = lost \cup S \cup
                    UNION {{tick[t].cur} \X tick[t].result.acc : t \in {u \in Ticks : tick[u].cur # NoMsg}}
  /\ tick' = [t \in Ticks |-> IdleTick]
  /\ failing' = [m \in Msgs |-> Blank]
  /\ msgs' = [m \in Msgs |-> Repaired(m, msgs[m])]
  /\ UNCHANGED <<sends, calls>>

-----------------------------------------------------------------------------
Init ==
  /\ msgs = [m \in Msgs |-> Blank]
  /\ tick = [t \in Ticks |-> IdleTick]
  /\ failing = [m \in Msgs |-> Blank]
  /\ rd = [m \in Msgs |-> [k \in Keys |-> "none"]]
  /\ handed = [m \in Msgs |-> [d \in Dsts |-> 0]]
  /\ lost = {}
  /\ sends = [m \in Msgs |-> 0]
  /\ calls = 0 /\ crashes = 0

\* the steps of the blocking tick; each waits for nothing but its own data plane
\* call, which ends with an answer or its timeout
TickStep(t) ==
  \/ StartTick(t)
  \/ SelectDue(t)
  \/ \E m \in Msgs : RepairDirectTimeout(t, m) \/ BeginAttempt(t, m)
  \/ DispatchAnswered(t) \/ DispatchErred(t)
  \/ CheckCurrent(t)
  \/ RetryFailure(t) \/ RetryRejected(t) \/ Accept(t) \/ GiveUp(t)
  \/ ScanReceipts(t)
  \/ \E m \in Msgs : PollStatus(t, m)
  \/ UpdateTargets(t) \/ Settle(t)
  \/ LoopEnds(t)
  \/ FinalizeReceipts(t)

AdapterStep(m) ==
  \/ ReceiptCallback(m)
  \/ FailureRead(m) \/ FailureWrite(m)
  \/ RetryCallback(m)
  \/ PropagationCallback(m)
  \/ DropCallback(m)
  \/ AttemptCallback(m)

TimeStep(m) == BackoffElapses(m) \/ DispatchDeadline(m) \/ ReceiptDeadline(m)

Next ==
  \/ \E m \in Msgs : Record(m) \/ AdapterStep(m) \/ TimeStep(m)
  \/ \E t \in Ticks : TickStep(t) \/ TickOverdue(t)
  \/ \E m \in Msgs, d \in Dsts : RdProgress(m, d)
  \/ CrashAndRestart

Spec == Init /\ [][Next]_vars

\* The worker keeps ticking and time passes; nothing is promised of the
\* requests, of reticulumd's reports or of the adapter.
Fairness ==
  /\ \A t \in Ticks : WF_vars(TickStep(t))
  /\ \A m \in Msgs : /\ WF_vars(BackoffElapses(m))
                      /\ WF_vars(DispatchDeadline(m))
                      /\ WF_vars(ReceiptDeadline(m))

FairSpec == Spec /\ Fairness

-----------------------------------------------------------------------------
(* Safety.                                                                 *)

\* the tick has taken up one of its rows
AtRow(t) == tick[t].pc \in {"wait", "check", "apply", "update", "verdict"}

\* The shape of the message rows, of the locals of a worker tick and of the
\* history variables.
TypeOK ==
  /\ msgs \in [Msgs -> Row]
  /\ tick \in [Ticks -> TickLocals]
  /\ \A t \in Ticks : AtRow(t) => tick[t].cur \in tick[t].work
  /\ failing \in [Msgs -> Row]
  /\ rd \in [Msgs -> [Keys -> Reports \cup {"none", "active"}]]
  /\ handed \in [Msgs -> [Dsts -> 0 .. 2]]
  /\ lost \subseteq Msgs \X Dsts
  /\ sends \in [Msgs -> 0 .. SendCap]
  /\ calls \in 0 .. CallBudget /\ crashes \in 0 .. CrashBudget

\* A row whose dispatch is in progress is not scheduled as well, so no later tick
\* picks it up again while its attempt runs: mark_outbound_attempt_started takes
\* the schedule back, and whoever schedules a row ends its attempt
\* (lib.rs:15958, 15629, 15691, 12219, 13413).
InProgressNotScheduled ==
  \A m \in Msgs : msgs[m].status = "in_progress" => ~msgs[m].retry

\* With one tick at a time and no callback of the adapter, the rows a tick still
\* has to dispatch are not settled while it works through its clones, although it
\* marks them without a second look: the accepted, the delivered and those whose
\* receipt is awaited are never among them (lib.rs:15285, 15319).
DueRowsStayOpen ==
  \A t \in Ticks : tick[t].pc \in {"due", "wait", "check", "apply"} =>
    \A m \in tick[t].work : msgs[m].state \in {"queued", "failed"} /\ ~msgs[m].pending

\* With one tick at a time and no callback of the adapter, a recipient is handed
\* to reticulumd a second time only if the hub never learned of the first: a
\* partial acceptance, a fallback to propagation and a restart all leave the
\* recipients that were admitted out of the next attempt (lib.rs:15281-15478).
NoDuplicateWithoutLoss ==
  \A m \in Msgs, d \in Dsts : handed[m][d] > 1 => <<m, d>> \in lost

\* The retry budget of a targeted message without crashes and callbacks: the
\* attempts of its kind, and those of the rate limit once it has been limited,
\* however failures, rejections and timeouts alternate (lib.rs:15807-15877).
DispatchBudget(m) ==
  IF msgs[m].budget THEN Max2(LimitMax, Max2(RetryMax, MultiMax))
  ELSE IF m \in Rem THEN Max2(RetryMax, MultiMax) ELSE RetryMax
RetryBudget == \A m \in Msgs \ Multi : sends[m] <= DispatchBudget(m)

\* What the hub reports as final is backed by reticulumd: a targeted message is
\* delivered, or propagated, only if reticulumd says so of its recipient, and a
\* propagated multi-recipient one only if it says so of some recipient
\* (lib.rs:11448-11533, 11976-12093).
SettledIsBacked ==
  \A m \in Msgs :
    /\ msgs[m].state = "delivered" /\ m \notin Multi =>
         \A d \in Recipients[m] : rd[m][d] = "delivered"
    /\ msgs[m].state = "propagated" =>
         \E d \in Recipients[m] : rd[m][d] \in {"sent", "delivered"}

\* A receipt that is awaited can be polled: the row has been accepted, counts as
\* dispatched and lists a target (lib.rs:11336-11358, 15424-15460).
AwaitedReceiptIsPollable ==
  \A m \in Msgs : msgs[m].pending =>
    /\ msgs[m].state \in {"sent", "propagating"}
    /\ msgs[m].counted
    /\ Listed(msgs[m].targets) # {}

-----------------------------------------------------------------------------
(* Action properties.                                                      *)

Accepted(m) == msgs[m].state \in {"sent", "delivered", "propagating", "propagated"}

\* No attempt is started for a message that is accepted, delivered or propagated
\* (lib.rs:15319): "RCH retries only until the SDK accepts work".
NoResendAfterAcceptance ==
  [][\A t \in Ticks : tick[t].pc = "due" /\ tick'[t].pc = "wait"
                      => ~Accepted(tick'[t].cur)]_vars

\* Delivered is final: neither a late verdict, an expired receipt deadline nor a
\* retry takes it back (lib.rs:11984, 12065, 12159).
DeliveredIsFinal ==
  [][\A m \in Msgs : msgs[m].state = "delivered" => msgs'[m].state = "delivered"]_vars

-----------------------------------------------------------------------------
(* Liveness.                                                               *)

\* A dispatch in progress comes to an end, whatever becomes of the tick that
\* started it (lib.rs:12219).
InProgressResolves ==
  \A m \in Msgs : msgs[m].state = "queued" /\ msgs[m].status = "in_progress"
                   ~> msgs[m].state # "queued" \/ msgs[m].status # "in_progress"

\* Every admitted message settles: it is accepted or failed and no receipt is
\* awaited, even if reticulumd never reports (lib.rs:12359).
EventuallySettled ==
  \A m \in Msgs : Live(m) ~> msgs[m].state # "queued" /\ ~msgs[m].pending

-----------------------------------------------------------------------------
(* What tests and documentation say that a partial acceptance refutes.     *)

\* A row that is scheduled for a retry is still queued: nothing settles it while
\* recipients wait for their retry (lib.rs:15397 "Retrying only recipients
\* rejected before LXMF admission").
ScheduledMeansQueued == \A m \in Msgs : msgs[m].retry => msgs[m].state = "queued"
=============================================================================
