------------------------ MODULE OutboundSettledProofs ------------------------
(***************************************************************************)
(* What a tick can rely on while it works through its clones without the   *)
(* lock, if there is no other tick and no callback of the adapter: the     *)
(* rows it still has to dispatch stay open, hence a receipt that is        *)
(* awaited can be polled, nothing accepted is dispatched again and         *)
(* nothing delivered is taken back.  The clones a tick works on equal the  *)
(* rows they were taken from until the tick itself writes them, and from   *)
(* that follow the claims about whole lives of a message: a duplicate      *)
(* comes of a loss, a report of success is backed by one of reticulumd's,  *)
(* and a message is not dispatched more often than its budget allows.      *)
(* With two ticks or a callback rows are written behind a tick's back, so  *)
(* the assumption is needed.                                               *)
(***************************************************************************)
EXTENDS OutboundDeliveryProofs

\* One tick at a time, and no callback of the adapter.
OneTickOnly == Callbacks = {} /\ \A t, u \in Ticks : t = u

\* The inductive invariant.  That rows in hand stay open and that an awaited
\* receipt is pollable need each other: a due row is open because the awaited ones
\* are settled, and an attempt starts from no awaited row because it was open.
SettledInv ==
  /\ TypeOK
  /\ \A m \in Msgs : failing[m].state = "absent"
  /\ DueRowsStayOpen
  /\ AwaitedReceiptIsPollable

InHand == {"due", "wait", "check", "apply"}

-----------------------------------------------------------------------------
\* Writing a pollable row keeps every row pollable.
LEMMA PutPollable ==
  ASSUME SettledInv, NEW m, NEW q, m \in Msgs => Pollable(q), msgs' = [msgs EXCEPT ![m] = q]
  PROVE  AwaitedReceiptIsPollable'
BY DEF SettledInv, TypeOK, AwaitedReceiptIsPollable, Pollable

\* A tick with no row in hand owes nothing.
LEMMA NothingInHand ==
  ASSUME OneTickOnly, NEW t \in Ticks, tick'[t].pc \notin InHand
  PROVE  DueRowsStayOpen'
BY DEF OneTickOnly, DueRowsStayOpen, InHand

\* The locals of a tick that is done with a row.
LEMMA DoneWithLocals ==
  ASSUME TypeOK, NEW t \in Ticks, NEW m, NEW next \in {"due", "poll"}, DoneWith(t, m, next)
  PROVE  tick'[t].pc = next /\ tick'[t].work = tick[t].work \ {m}
<1> DEFINE new == [IdleTick EXCEPT !.pc = next, !.work = tick[t].work \ {m},
             !.snap = [tick[t].snap EXCEPT ![m] = Blank], !.overdue = tick[t].overdue]
<1>1. new.pc = next /\ new.work = tick[t].work \ {m}
  BY DEF IdleTick
<1>2. tick' = [tick EXCEPT ![t] = new]
  BY DEF DoneWith
<1> HIDE DEF new
<1>3. QED
  BY <1>1, <1>2 DEF TypeOK

\* A row is written and the tick done with it: the others in hand are as they were.
LEMMA DoneKeepsOpen ==
  ASSUME OneTickOnly, SettledInv, NEW t \in Ticks, tick[t].pc \in InHand, NEW m, NEW q,
         DoneWith(t, m, "due"), msgs' = [msgs EXCEPT ![m] = q]
  PROVE  DueRowsStayOpen'
<1>1. tick'[t].pc = "due" /\ tick'[t].work = tick[t].work \ {m}
  BY DoneWithLocals DEF SettledInv
<1>2. \A n \in tick[t].work : n \in Msgs /\ Open(msgs[n])
  BY DEF SettledInv, TypeOK, TickLocals, DueRowsStayOpen, InHand, Open
<1>3. \A n \in tick'[t].work : msgs'[n] = msgs[n]
  BY <1>1, <1>2 DEF SettledInv, TypeOK
<1>4. QED
  BY <1>1, <1>2, <1>3 DEF OneTickOnly, DueRowsStayOpen, Open

\* The row a tick is at is open until its result is applied.
LEMMA AtRowOpen ==
  ASSUME SettledInv, NEW t \in Ticks, tick[t].pc \in {"wait", "check", "apply"}
  PROVE  /\ Open(msgs[tick[t].cur]) /\ tick[t].cur \in Msgs
         /\ msgs[tick[t].cur] \in Row /\ tick[t].snap[tick[t].cur] \in Row
         /\ tick[t].result \in Results
BY AtRowType DEF SettledInv, AtRow, DueRowsStayOpen, Open, TypeOK

\* Every row that is due is open: an awaited receipt belongs to a settled row.
LEMMA DueIsOpen ==
  ASSUME SettledInv, NEW m \in Msgs, RetryDue(m, msgs[m])
  PROVE  Open(msgs[m])
BY DEF SettledInv, AwaitedReceiptIsPollable, RetryDue, DirectTimeoutDue, FallbackRetryDue,
       Open, TypeOK, Row

-----------------------------------------------------------------------------
(* The steps of the tick.                                                  *)

\* A step of the only tick keeps its due rows open and awaited receipts pollable.
LEMMA TickStepSettled ==
  ASSUME OneTickOnly, SettledInv, NEW t \in Ticks, TickStep(t)
  PROVE  DueRowsStayOpen' /\ AwaitedReceiptIsPollable'
<1> DEFINE m == tick[t].cur
           c == tick[t].snap[m]
<1> USE DEF SettledInv, TypeOK
<1>1. CASE StartTick(t)
  <2>1. \A n \in Msgs : Pollable(AfterDispatchTimeout(n, msgs[n]))
    BY DispatchTimeoutEnds, EndedIsOpen
  <2>2. AwaitedReceiptIsPollable'
    BY <1>1, <2>1 DEF StartTick, AwaitedReceiptIsPollable, Pollable
  <2>3. tick'[t].pc = "select"
    BY <1>1 DEF StartTick, TickLocals
  <2>4. QED
    BY <2>2, <2>3, NothingInHand DEF InHand
<1>2. CASE SelectDue(t)
  <2>1. AwaitedReceiptIsPollable'
    BY <1>2 DEF SelectDue, AwaitedReceiptIsPollable
  <2> DEFINE due == {n \in Msgs : RetryDue(n, msgs[n])}
             pc == IF due = {} THEN "scan" ELSE "due"
             snap == [n \in Msgs |-> IF n \in due THEN msgs[n] ELSE Blank]
  <2>2. tick' = [tick EXCEPT ![t] = [tick[t] EXCEPT !.pc = pc, !.work = due, !.snap = snap]]
    BY <1>2 DEF SelectDue
  <2> HIDE DEF pc, due, snap
  <2>3. tick'[t].work = due
    BY <2>2 DEF TickLocals
  <2>4. \A n \in due : Open(msgs[n])
    BY DueIsOpen DEF due
  <2>5. msgs' = msgs
    BY <1>2 DEF SelectDue
  <2>6. QED
    BY <2>1, <2>3, <2>4, <2>5 DEF OneTickOnly, DueRowsStayOpen, Open
<1>3. ASSUME NEW n \in Msgs, RepairDirectTimeout(t, n)
      PROVE  DueRowsStayOpen' /\ AwaitedReceiptIsPollable'
  <2>1. Pollable(ForPropagation(msgs[n]))
    BY ForPropagationEnds, EndedIsOpen
  <2>2. AwaitedReceiptIsPollable'
    BY <1>3, <2>1, PutPollable DEF RepairDirectTimeout
  <2>3. DueRowsStayOpen'
    BY <1>3, DoneKeepsOpen DEF RepairDirectTimeout, InHand
  <2>4. QED
    BY <2>2, <2>3
<1>4. ASSUME NEW n \in Msgs, BeginAttempt(t, n)
      PROVE  DueRowsStayOpen' /\ AwaitedReceiptIsPollable'
  <2>1. PICK expired : msgs' = [msgs EXCEPT ![n] = Started(msgs[n], t, expired)]
    BY <1>4 DEF BeginAttempt
  <2>2. \A k \in tick[t].work : k \in Msgs /\ Open(msgs[k])
    BY <1>4 DEF BeginAttempt, TickLocals, DueRowsStayOpen, Open
  <2>3. Open(Started(msgs[n], t, expired)) /\ Pollable(Started(msgs[n], t, expired))
    <3>1. Open(msgs[n]) /\ msgs[n] \in Row
      BY <1>4, <2>2 DEF BeginAttempt
    <3> DEFINE q == Started(msgs[n], t, expired)
    <3>2. q.state = "queued" /\ q.pending = msgs[n].pending
      BY <3>1, StartedStanding
    <3> HIDE DEF q
    <3>3. Open(q) /\ Pollable(q)
      BY <3>1, <3>2 DEF Open, Pollable
    <3>4. QED
      BY <3>3 DEF q
  <2>4. tick'[t].work = tick[t].work
    BY <1>4 DEF BeginAttempt, TickLocals
  <2>5. \A k \in tick'[t].work : Open(msgs'[k])
    BY <2>1, <2>2, <2>3, <2>4
  <2>6. AwaitedReceiptIsPollable'
    BY <2>1, <2>3, PutPollable
  <2>7. QED
    BY <2>5, <2>6 DEF OneTickOnly, DueRowsStayOpen, Open
<1>5. CASE DispatchAnswered(t) \/ DispatchErred(t)
  <2>1. msgs' = msgs /\ tick[t].pc \in InHand
    BY <1>5 DEF DispatchAnswered, DispatchErred, InHand
  <2>2. PICK res : tick' = [tick EXCEPT ![t].pc = "check", ![t].result = res]
    <3>1. CASE DispatchAnswered(t)
      BY <3>1 DEF DispatchAnswered
    <3>2. CASE DispatchErred(t)
      BY <3>2 DEF DispatchErred
    <3>3. QED
      BY <1>5, <3>1, <3>2
  <2>3. tick'[t].work = tick[t].work
    BY <2>2 DEF TickLocals
  <2>4. QED
    BY <2>1, <2>3 DEF OneTickOnly, DueRowsStayOpen, AwaitedReceiptIsPollable, InHand
<1>6. CASE CheckCurrent(t)
  <2>1. msgs' = msgs /\ tick[t].pc \in InHand
    BY <1>6 DEF CheckCurrent, InHand
  <2>2. tick'[t].work \subseteq tick[t].work
    <3>1. CASE tick' = [tick EXCEPT ![t].pc = "apply"]
      BY <3>1 DEF TickLocals
    <3>2. CASE DoneWith(t, m, "due")
      BY <3>2, DoneWithLocals
    <3>3. QED
      BY <1>6, <3>1, <3>2 DEF CheckCurrent
  <2>3. QED
    BY <2>1, <2>2 DEF OneTickOnly, DueRowsStayOpen, AwaitedReceiptIsPollable, InHand
<1>7. CASE RetryFailure(t)
  <2>1. c \in Row /\ msgs[m] \in Row /\ tick[t].result.err \in Errors \cup {"none"}
    BY <1>7, AtRowOpen DEF RetryFailure, Applying, Results
  <2>2. Pollable(AfterFailureRetry(msgs[m], c, tick[t].result.err))
    BY <2>1, FailureRetryEnds, EndedIsOpen
  <2>3. AwaitedReceiptIsPollable'
    BY <1>7, <2>2, PutPollable DEF RetryFailure
  <2>4. DueRowsStayOpen'
    BY <1>7, DoneKeepsOpen DEF RetryFailure, Applying, InHand
  <2>5. QED
    BY <2>3, <2>4
<1>8. CASE RetryRejected(t)
  <2>1. c \in Row /\ msgs[m] \in Row
    BY <1>8, AtRowOpen DEF RetryRejected, Applying
  <2> DEFINE q == Retrying(msgs[m], NextAttempt(c), "other", "other")
  <2>2. q \in Row /\ Ended(q)
    BY <2>1, NextAttemptType, RetryingType, RetryingEnds DEF Errors, Reasons
  <2>3. PICK counted, ts, only :
          msgs' = [msgs EXCEPT ![m] =
            [q EXCEPT !.counted = counted, !.targets = ts, !.listed = TRUE, !.only = only]]
    BY <1>8 DEF RetryRejected
  <2> HIDE DEF q
  <2>4. Pollable([q EXCEPT !.counted = counted, !.targets = ts, !.listed = TRUE, !.only = only])
    BY <2>2 DEF Pollable, Ended, Row
  <2>5. AwaitedReceiptIsPollable'
    BY <2>3, <2>4, PutPollable
  <2>6. DueRowsStayOpen'
    BY <1>8, <2>3, DoneKeepsOpen DEF RetryRejected, Applying, InHand
  <2>7. QED
    BY <2>5, <2>6
<1>9. CASE Accept(t)
  <2>1. PICK q \in Row :
          /\ msgs' = [msgs EXCEPT ![m] = q]
          /\ q.state \in {"sent", "propagating"} /\ q.counted /\ Listed(q.targets) # {}
    BY <1>9, AcceptWrites
  <2>2. AwaitedReceiptIsPollable'
    BY <2>1, PutPollable DEF Pollable
  <2>3. DueRowsStayOpen'
    BY <1>9, <2>1, DoneKeepsOpen DEF Accept, Applying, InHand
  <2>4. QED
    BY <2>2, <2>3
<1>10. CASE GiveUp(t)
  <2>1. msgs[m] \in Row /\ tick[t].result.err \in Errors \cup {"none"}
    BY <1>10, AtRowOpen DEF GiveUp, Applying, Results
  <2>2. PICK e, a :
          /\ e \in Errors \cup {"none"}
          /\ msgs' = [msgs EXCEPT ![m] = [Failed(msgs[m], e) EXCEPT !.attempts = a]]
    BY <1>10, <2>1 DEF GiveUp, Errors
  <2>3. Pollable([Failed(msgs[m], e) EXCEPT !.attempts = a])
    BY <2>1, <2>2, FailedType, FailedEnds, AttemptsKeepEnd, EndedIsOpen
  <2>4. AwaitedReceiptIsPollable'
    BY <2>2, <2>3, PutPollable
  <2>5. DueRowsStayOpen'
    BY <1>10, <2>2, DoneKeepsOpen DEF GiveUp, Applying, InHand
  <2>6. QED
    BY <2>4, <2>5
<1>11. CASE ScanReceipts(t)
  <2>1. msgs' = msgs /\ tick'[t].pc = "poll"
    BY <1>11 DEF ScanReceipts, TickLocals
  <2>2. QED
    BY <2>1, NothingInHand DEF AwaitedReceiptIsPollable, InHand
<1>12. ASSUME NEW n \in Msgs, PollStatus(t, n)
       PROVE  DueRowsStayOpen' /\ AwaitedReceiptIsPollable'
  <2>1. msgs' = msgs
    BY <1>12 DEF PollStatus
  <2>2. tick'[t].pc \in {"poll", "update"}
    <3>1. CASE DoneWith(t, n, "poll")
      BY <3>1, DoneWithLocals
    <3>2. CASE \E seen : tick' = [tick EXCEPT ![t].pc = "update", ![t].cur = n, ![t].seen = seen]
      BY <3>2 DEF TickLocals
    <3>3. QED
      BY <1>12, <3>1, <3>2 DEF PollStatus
  <2>3. QED
    BY <2>1, <2>2, NothingInHand DEF AwaitedReceiptIsPollable, InHand
<1>13. CASE UpdateTargets(t)
  <2>1. m \in Msgs /\ Pollable(msgs[m])
    BY <1>13, AtRowType DEF UpdateTargets, AtRow, AwaitedReceiptIsPollable, Pollable
  <2>2. PICK q \in Row :
          /\ msgs' = [msgs EXCEPT ![m] = q]
          /\ q.state = msgs[m].state /\ q.pending = msgs[m].pending /\ q.counted = msgs[m].counted
          /\ Listed(msgs[m].targets) \subseteq Listed(q.targets)
    BY <1>13, UpdateWrites
  <2>3. AwaitedReceiptIsPollable'
    BY <2>1, <2>2, PutPollable DEF Pollable
  <2>4. tick'[t].pc = "verdict"
    BY <1>13 DEF UpdateTargets, TickLocals
  <2>5. QED
    BY <2>3, <2>4, NothingInHand DEF InHand
<1>14. CASE Settle(t)
  <2>1. msgs[m] \in Row /\ Pollable(msgs[m])
    BY <1>14, AtRowType DEF Settle, AtRow, AwaitedReceiptIsPollable, Pollable
  <2>2. Pollable(Failed(msgs[m], "other"))
    BY <2>1, FailedEnds, EndedIsOpen
  <2>3. ASSUME NEW state PROVE Pollable([Acknowledged(msgs[m]) EXCEPT !.state = state])
    BY <2>1, ClearedType DEF Acknowledged, Pollable, Row
  <2>4. PICK q : /\ msgs' = [msgs EXCEPT ![m] = q]
                 /\ \/ q = msgs[m] \/ q = Failed(msgs[m], "other")
                    \/ \E state : q = [Acknowledged(msgs[m]) EXCEPT !.state = state]
    BY <1>14 DEF Settle
  <2>5. AwaitedReceiptIsPollable'
    BY <2>1, <2>2, <2>3, <2>4, PutPollable
  <2>6. tick'[t].pc = "poll"
    BY <1>14, DoneWithLocals DEF Settle
  <2>7. QED
    BY <2>5, <2>6, NothingInHand DEF InHand
<1>15. CASE LoopEnds(t)
  <2>1. msgs' = msgs /\ tick'[t].pc \in {"idle", "receipts"}
    BY <1>15 DEF LoopEnds, TickLocals, IdleTick
  <2>2. QED
    BY <2>1, NothingInHand DEF AwaitedReceiptIsPollable, InHand
<1>16. CASE FinalizeReceipts(t)
  <2>1. \A n \in Msgs : Pollable(AfterReceiptTimeout(msgs[n]))
    BY ReceiptTimeoutStanding, EndedIsOpen, SameStandingKeeps
       DEF AwaitedReceiptIsPollable, Pollable
  <2>2. AwaitedReceiptIsPollable'
    BY <1>16, <2>1 DEF FinalizeReceipts, AwaitedReceiptIsPollable, Pollable
  <2>3. tick'[t].pc = "idle"
    BY <1>16 DEF FinalizeReceipts, IdleTick
  <2>4. QED
    BY <2>2, <2>3, NothingInHand DEF InHand
<1>17. QED
  BY <1>1, <1>2, <1>3, <1>4, <1>5, <1>6, <1>7, <1>8, <1>9, <1>10, <1>11, <1>12, <1>13,
     <1>14, <1>15, <1>16 DEF TickStep

-----------------------------------------------------------------------------
\* Every step of the system does, with one tick at a time and no callbacks.
LEMMA SettledInductive ==
  ASSUME OneTickOnly, SettledInv, [Next]_vars
  PROVE  DueRowsStayOpen' /\ AwaitedReceiptIsPollable' /\ \A m \in Msgs : failing'[m].state = "absent"
<1> USE DEF SettledInv
<1>1. ASSUME NEW m \in Msgs, AdapterStep(m) PROVE FALSE
  BY <1>1 DEF OneTickOnly, AdapterStep, CallbackOn, ReceiptCallback, FailureRead, FailureWrite,
     RetryCallback, PropagationCallback, DropCallback, AttemptCallback
<1>2. ASSUME NEW t \in Ticks, TickStep(t) PROVE failing' = failing
  BY <1>2 DEF TickStep, StartTick, SelectDue, RepairDirectTimeout, BeginAttempt, DispatchAnswered,
     DispatchErred, CheckCurrent, RetryFailure, RetryRejected, Accept, GiveUp, ScanReceipts,
     PollStatus, UpdateTargets, Settle, LoopEnds, FinalizeReceipts
<1>3. ASSUME NEW m \in Msgs, NEW q, msgs' = [msgs EXCEPT ![m] = q], tick' = tick,
             Open(msgs[m]) => Open(q), Pollable(q)
      PROVE  DueRowsStayOpen' /\ AwaitedReceiptIsPollable'
  <2>1. AwaitedReceiptIsPollable'
    BY <1>3, PutPollable
  <2>2. ASSUME NEW t \in Ticks, tick'[t].pc \in InHand, NEW n \in tick'[t].work
        PROVE  Open(msgs'[n])
    <3>1. n \in Msgs /\ Open(msgs[n])
      BY <1>3, <2>2 DEF TypeOK, TickLocals, DueRowsStayOpen, InHand, Open
    <3>2. QED
      BY <1>3, <3>1 DEF TypeOK
  <2>3. QED
    BY <2>1, <2>2 DEF DueRowsStayOpen, InHand, Open
<1>4. ASSUME NEW m \in Msgs, Record(m)
      PROVE  /\ DueRowsStayOpen' /\ AwaitedReceiptIsPollable' /\ failing' = failing
  <2>1. PICK method :
          msgs' = [msgs EXCEPT ![m] = [Blank EXCEPT !.state = "queued", !.method = method,
                                         !.status = "queued", !.retry = TRUE]]
    BY <1>4 DEF Record
  <2> DEFINE q == [Blank EXCEPT !.state = "queued", !.method = method,
                                !.status = "queued", !.retry = TRUE]
  <2>2. Open(q) /\ Pollable(q)
    BY DEF Open, Pollable, Blank
  <2> HIDE DEF q
  <2>3. msgs' = [msgs EXCEPT ![m] = q]
    BY <2>1 DEF q
  <2>4. QED
    BY <1>3, <1>4, <2>2, <2>3 DEF Record
<1>5. ASSUME NEW m \in Msgs, TimeStep(m)
      PROVE  /\ DueRowsStayOpen' /\ AwaitedReceiptIsPollable' /\ failing' = failing
  <2>1. PICK q \in {[msgs[m] EXCEPT !.due = TRUE], [msgs[m] EXCEPT !.dexp = TRUE],
                    [msgs[m] EXCEPT !.rexp = TRUE]} : msgs' = [msgs EXCEPT ![m] = q]
    BY <1>5 DEF TimeStep, BackoffElapses, DispatchDeadline, ReceiptDeadline
  <2>2. Pollable(msgs[m]) /\ msgs[m] \in Row
    BY DEF TypeOK, AwaitedReceiptIsPollable, Pollable
  <2>3. SameStanding(q, msgs[m])
    BY <2>1, <2>2, FlagsKeepStanding
  <2>4. (Open(msgs[m]) => Open(q)) /\ Pollable(q)
    BY <2>2, <2>3, SameStandingKeeps
  <2>5. tick' = tick /\ failing' = failing
    BY <1>5 DEF TimeStep, BackoffElapses, DispatchDeadline, ReceiptDeadline, Passing
  <2>6. QED
    BY <1>3, <2>1, <2>4, <2>5
<1>6. ASSUME NEW t \in Ticks, TickOverdue(t)
      PROVE  /\ DueRowsStayOpen' /\ AwaitedReceiptIsPollable' /\ failing' = failing
  <2>1. msgs' = msgs /\ failing' = failing /\ tick'[t].pc = tick[t].pc /\ tick'[t].work = tick[t].work
    BY <1>6 DEF TickOverdue, Passing, TypeOK, TickLocals
  <2>2. QED
    BY <2>1 DEF OneTickOnly, DueRowsStayOpen, AwaitedReceiptIsPollable
<1>7. CASE CrashAndRestart
  <2>1. /\ tick' = [u \in Ticks |-> IdleTick] /\ failing' = [m \in Msgs |-> Blank]
        /\ msgs' = [m \in Msgs |-> Repaired(m, msgs[m])]
    BY <1>7 DEF CrashAndRestart
  <2>2. DueRowsStayOpen'
    BY <2>1 DEF DueRowsStayOpen, IdleTick
  <2>3. \A m \in Msgs : Pollable(Repaired(m, msgs[m]))
    <3> SUFFICES ASSUME NEW m \in Msgs PROVE Pollable(Repaired(m, msgs[m]))
      OBVIOUS
    <3>1. msgs[m] \in Row /\ Pollable(msgs[m])
      BY DEF TypeOK, AwaitedReceiptIsPollable, Pollable
    <3>2. ~Repaired(m, msgs[m]).pending \/ SameStanding(Repaired(m, msgs[m]), msgs[m])
      BY <3>1, RepairedStanding
    <3>3. QED
      BY <3>1, <3>2, SameStandingKeeps DEF Pollable
  <2>4. AwaitedReceiptIsPollable'
    BY <2>1, <2>3 DEF AwaitedReceiptIsPollable, Pollable
  <2>5. \A m \in Msgs : failing'[m].state = "absent"
    BY <2>1 DEF Blank
  <2>6. QED
    BY <2>2, <2>4, <2>5
<1>8. CASE (\E m \in Msgs, d \in Dsts : RdProgress(m, d)) \/ UNCHANGED vars
  <2>1. msgs' = msgs /\ tick' = tick /\ failing' = failing
    BY <1>8 DEF RdProgress, vars
  <2>2. QED
    BY <2>1 DEF DueRowsStayOpen, AwaitedReceiptIsPollable
<1>9. QED
  BY <1>1, <1>2, <1>4, <1>5, <1>6, <1>7, <1>8, TickStepSettled DEF Next

\* SettledInv is an invariant of the specification.
LEMMA SettledInvariant ==
  ASSUME OneTickOnly PROVE Spec => []SettledInv
<1>1. Init => SettledInv
  <2> SUFFICES ASSUME Init PROVE SettledInv
    OBVIOUS
  <2>1. TypeOK
    BY InitType
  <2>2. DueRowsStayOpen /\ AwaitedReceiptIsPollable /\ \A m \in Msgs : failing[m].state = "absent"
    BY DEF Init, DueRowsStayOpen, AwaitedReceiptIsPollable, Blank, IdleTick
  <2>3. QED
    BY <2>1, <2>2 DEF SettledInv
<1>2. SettledInv /\ [Next]_vars => SettledInv'
  BY SettledInductive, NextType DEF SettledInv
<1>3. QED
  BY <1>1, <1>2, PTL DEF Spec

\* While it works through its clones a tick has only open rows in hand
\* (lib.rs:15285, 15319).
THEOREM DueRowsAlwaysOpen ==
  ASSUME OneTickOnly PROVE Spec => []DueRowsStayOpen
<1>1. SettledInv => DueRowsStayOpen
  BY DEF SettledInv
<1>2. QED
  BY <1>1, SettledInvariant, PTL

\* Whoever awaits a receipt can be polled for it (lib.rs:15424-15460).
THEOREM AwaitedReceiptsArePollable ==
  ASSUME OneTickOnly PROVE Spec => []AwaitedReceiptIsPollable
<1>1. SettledInv => AwaitedReceiptIsPollable
  BY DEF SettledInv
<1>2. QED
  BY <1>1, SettledInvariant, PTL

-----------------------------------------------------------------------------
(* The action properties.                                                  *)

\* A row outside the hand of the tick is written only if it is not delivered.
LEMMA DeliveredStays ==
  ASSUME OneTickOnly, SettledInv, [Next]_vars, NEW n \in Msgs, msgs[n].state = "delivered"
  PROVE  msgs'[n].state = "delivered"
<1> USE DEF SettledInv, TypeOK
<1>1. n \in Msgs /\ msgs[n] \in Row /\ ~Open(msgs[n])
  BY DEF Open
<1>2. ASSUME NEW m, NEW q, msgs' = [msgs EXCEPT ![m] = q], m = n => q.state = "delivered"
      PROVE  msgs'[n].state = "delivered"
  BY <1>2
<1>3. ASSUME NEW t \in Ticks, TickStep(t) PROVE msgs'[n].state = "delivered"
  <2> DEFINE m == tick[t].cur
  <2>1. ASSUME tick[t].pc = "apply" PROVE m # n
    BY <1>1, <2>1, AtRowOpen
  <2>2. CASE StartTick(t)
    BY <2>2 DEF StartTick, DispatchPending
  <2>3. ASSUME NEW k \in Msgs, RepairDirectTimeout(t, k) \/ BeginAttempt(t, k)
        PROVE  msgs'[n].state = "delivered"
    <3>1. k # n
      BY <1>1, <2>3 DEF RepairDirectTimeout, BeginAttempt, DueRowsStayOpen, Open
    <3>2. QED
      BY <2>3, <3>1 DEF RepairDirectTimeout, BeginAttempt
  <2>4. CASE RetryFailure(t) \/ RetryRejected(t) \/ Accept(t) \/ GiveUp(t)
    BY <2>1, <2>4 DEF RetryFailure, RetryRejected, Accept, GiveUp, Applying
  <2>5. CASE UpdateTargets(t)
    <3>1. PICK q : msgs' = [msgs EXCEPT ![m] = q] /\ q.state = msgs[m].state
      BY <2>5, UpdateWrites
    <3>2. QED
      BY <1>2, <3>1
  <2>6. CASE Settle(t)
    BY <2>6 DEF Settle
  <2>7. CASE FinalizeReceipts(t)
    BY <2>7 DEF FinalizeReceipts, AwaitedReceiptIsPollable
  <2>8. CASE \/ SelectDue(t) \/ DispatchAnswered(t) \/ DispatchErred(t) \/ CheckCurrent(t)
             \/ ScanReceipts(t) \/ LoopEnds(t) \/ \E k \in Msgs : PollStatus(t, k)
    BY <2>8 DEF SelectDue, DispatchAnswered, DispatchErred, CheckCurrent,
       ScanReceipts, LoopEnds, PollStatus
  <2>9. QED
    BY <1>3, <2>2, <2>3, <2>4, <2>5, <2>6, <2>7, <2>8 DEF TickStep
<1>4. ASSUME NEW m \in Msgs, AdapterStep(m) PROVE FALSE
  BY <1>4 DEF OneTickOnly, AdapterStep, CallbackOn, ReceiptCallback, FailureRead, FailureWrite,
     RetryCallback, PropagationCallback, DropCallback, AttemptCallback
<1>5. ASSUME NEW m \in Msgs, Record(m) PROVE msgs'[n].state = "delivered"
  BY <1>5 DEF Record
<1>6. ASSUME NEW m \in Msgs, TimeStep(m) PROVE msgs'[n].state = "delivered"
  <2>1. PICK q \in {[msgs[m] EXCEPT !.due = TRUE], [msgs[m] EXCEPT !.dexp = TRUE],
                    [msgs[m] EXCEPT !.rexp = TRUE]} : msgs' = [msgs EXCEPT ![m] = q]
    BY <1>6 DEF TimeStep, BackoffElapses, DispatchDeadline, ReceiptDeadline
  <2>2. msgs[m] \in Row
    OBVIOUS
  <2>3. q.state = msgs[m].state
    BY <2>1, <2>2, FlagsKeepStanding, ZenonT(60) DEF SameStanding
  <2>4. QED
    BY <1>2, <2>1, <2>3
<1>7. CASE CrashAndRestart
  <2>1. msgs' = [m \in Msgs |-> Repaired(m, msgs[m])]
    BY <1>7 DEF CrashAndRestart
  <2>2. Repaired(n, msgs[n]).state = "delivered"
    BY RepairedStanding
  <2>3. QED
    BY <2>1, <2>2
<1>8. CASE \/ \E m \in Msgs, d \in Dsts : RdProgress(m, d)
           \/ \E t \in Ticks : TickOverdue(t)
           \/ UNCHANGED vars
  BY <1>8 DEF RdProgress, TickOverdue, vars
<1>9. QED
  BY <1>3, <1>4, <1>5, <1>6, <1>7, <1>8 DEF Next

\* An attempt that starts takes up a row that is open.
LEMMA AttemptsAreOpen ==
  ASSUME OneTickOnly, SettledInv, [Next]_vars, NEW t \in Ticks,
         tick[t].pc = "due", tick'[t].pc = "wait"
  PROVE  ~Accepted(tick'[t].cur)
<1> USE DEF SettledInv, TypeOK
<1>1. ASSUME NEW m \in Msgs, BeginAttempt(t, m) PROVE ~Accepted(tick'[t].cur)
  <2>1. tick'[t].cur = m /\ m \in tick[t].work
    BY <1>1 DEF BeginAttempt, TickLocals
  <2>2. QED
    BY <2>1 DEF DueRowsStayOpen, Accepted
<1>2. ASSUME NEW u \in Ticks, TickStep(u) PROVE \E m \in Msgs : BeginAttempt(t, m)
  <2>1. u = t
    BY DEF OneTickOnly
  <2>2. ASSUME NEW m, NEW next \in {"due", "poll"} PROVE ~DoneWith(t, m, next)
    BY DoneWithLocals
  <2>3. ~LoopEnds(t)
    BY DEF LoopEnds, TickLocals, IdleTick
  <2>4. QED
    BY <1>2, <2>1, <2>2, <2>3 DEF TickStep, StartTick, SelectDue, RepairDirectTimeout,
       DispatchAnswered, DispatchErred, CheckCurrent, RetryFailure, RetryRejected, Accept,
       GiveUp, Applying, ScanReceipts, PollStatus, UpdateTargets, Settle, FinalizeReceipts
<1>3. ASSUME tick' = tick PROVE FALSE
  BY <1>3
<1>4. ASSUME NEW u \in Ticks, TickOverdue(u) PROVE FALSE
  BY <1>4 DEF OneTickOnly, TickOverdue
<1>5. CASE CrashAndRestart
  BY <1>5 DEF CrashAndRestart, IdleTick
<1>6. ASSUME NEW m \in Msgs, Record(m) \/ TimeStep(m) \/ AdapterStep(m) PROVE tick' = tick
  BY <1>6 DEF Record, TimeStep, BackoffElapses, DispatchDeadline, ReceiptDeadline, AdapterStep,
     ReceiptCallback, FailureRead, FailureWrite, RetryCallback, PropagationCallback, DropCallback,
     AttemptCallback, Adapter
<1>7. CASE (\E m \in Msgs, d \in Dsts : RdProgress(m, d)) \/ UNCHANGED vars
  BY <1>3, <1>7 DEF RdProgress, vars
<1>8. QED
  BY <1>1, <1>2, <1>3, <1>4, <1>5, <1>6, <1>7 DEF Next

\* Delivered is final (lib.rs:11984, 12065, 12159).
THEOREM DeliveredStaysDelivered ==
  ASSUME OneTickOnly PROVE Spec => DeliveredIsFinal
<1>1. SettledInv /\ [Next]_vars =>
        [\A m \in Msgs : msgs[m].state = "delivered" => msgs'[m].state = "delivered"]_vars
  BY DeliveredStays
<1>2. QED
  BY <1>1, SettledInvariant, PTL DEF Spec, DeliveredIsFinal

\* No attempt is started for a message that has been accepted (lib.rs:15319).
THEOREM AcceptedIsNotResent ==
  ASSUME OneTickOnly PROVE Spec => NoResendAfterAcceptance
<1>1. SettledInv /\ [Next]_vars =>
        [\A t \in Ticks : tick[t].pc = "due" /\ tick'[t].pc = "wait"
                          => ~Accepted(tick'[t].cur)]_vars
  BY AttemptsAreOpen
<1>2. QED
  BY <1>1, SettledInvariant, PTL DEF Spec, NoResendAfterAcceptance

-----------------------------------------------------------------------------
(* What an attempt leaves behind.  The invariants below relate the rows to *)
(* the clones of the tick: what a clone says of receipt targets, attempts  *)
(* and destinations still holds of the row when the result is applied,     *)
(* although the lock was released in between.                              *)

\* A list of receipt targets names recipients, or the message's own id.
TargetsWithin(m, r) ==
  \A k \in Listed(r.targets) : k \in Recipients[m] \/ (m \in Multi /\ k = Parent)

\* Rows a later tick may dispatch: those that are queued, those that were never
\* accepted in part, and those that wait for the fallback to propagation.
Ready(m, r) ==
  \/ r.state = "queued" \/ ~r.counted
  \/ r.state = "failed" /\ m \in Multi /\ r.method = "direct" /\ r.error = "send_timeout"

\* Nothing is known to have become of recipient d.
Unanswered(m, r, d) ==
  IF m \in Multi THEN r.targets[d] = "none" ELSE ~SuccessTerminal(r.targets[d])

RowFits(m, r) ==
  /\ TargetsWithin(m, r)
  /\ r.status = "in_progress" => r.state = "queued"
  /\ r.state = "absent" => ~r.counted
  /\ r.state = "queued" /\ m \notin Multi => ~r.counted
  /\ Ready(m, r) => \A d \in Destinations(m, r) : Unanswered(m, r, d)
RowsFit == \A m \in Msgs : RowFits(m, msgs[m])

\* The row of an attempt, by the clone it was started from.
Begun(q, c) ==
  /\ q.state = "queued" /\ q.status = "in_progress"
  /\ q.error = "none" /\ q.reason = "none" /\ q.targets = NoTargets
  /\ q.due = c.due /\ q.only = c.only /\ q.counted = c.counted
  /\ q.attempts = c.attempts /\ q.budget = c.budget /\ q.method = c.method

Attempting == {"wait", "check", "apply"}

\* The tick's clones are the rows, and the one it is at has its attempt begun.
ClonesCurrent ==
  \A t \in Ticks : tick[t].pc \in InHand =>
    /\ \A n \in tick[t].work :
         /\ RetryDue(n, tick[t].snap[n]) /\ RowFits(n, tick[t].snap[n])
         /\ msgs[n] = tick[t].snap[n] \/ (n = tick[t].cur /\ tick[t].pc # "due")
    /\ tick[t].pc # "due" => Begun(msgs[tick[t].cur], tick[t].snap[tick[t].cur])

\* The answer to a dispatch is about its destinations.
AnswersFit(D, res) ==
  /\ res.acc \subseteq D /\ res.again \subseteq D /\ res.acc \cap res.again = {}
  /\ res.kind = "error" => res.acc = {}
ResultFits ==
  \A t \in Ticks : tick[t].pc \in {"check", "apply"} =>
    AnswersFit(Destinations(tick[t].cur, tick[t].snap[tick[t].cur]), tick[t].result)

ClonesInv == RowsFit /\ ClonesCurrent /\ ResultFits

-----------------------------------------------------------------------------
(* The operators on rows, by the fields these invariants read.             *)

\* What an attempt that fails leaves alone.
SameRecord(q, r) == q.only = r.only /\ q.counted = r.counted /\ q.targets = r.targets

\* The fields that count attempts.
SameCount(q, r) == q.attempts = r.attempts /\ q.budget = r.budget

\* What deadlines that pass leave alone.
OnlyFlags(q, r) ==
  /\ SameRecord(q, r) /\ SameCount(q, r) /\ q.state = r.state /\ q.status = r.status
  /\ q.method = r.method /\ q.error = r.error /\ q.reason = r.reason
  /\ r.due => q.due

\* Deadlines that pass.
LEMMA FlagFields ==
  ASSUME NEW r \in Row
  PROVE  /\ OnlyFlags([r EXCEPT !.due = TRUE], r)
         /\ OnlyFlags([r EXCEPT !.dexp = TRUE], r)
         /\ OnlyFlags([r EXCEPT !.rexp = TRUE], r)
BY DEF OnlyFlags, SameRecord, SameCount, Row

\* What success takes back.
LEMMA ClearedFields ==
  ASSUME NEW r \in Row
  PROVE  LET q == Cleared(r)
         IN  /\ SameRecord(q, r) /\ SameCount(q, r) /\ q.state = r.state /\ q.status = r.status
             /\ q.method = r.method /\ q.error = "none" /\ q.reason = "none" /\ q.due = r.due
BY DEF SameRecord, SameCount, Cleared, Row

\* What a new attempt takes back.
LEMMA ClearedForRetryFields ==
  ASSUME NEW r \in Row
  PROVE  LET q == ClearedForRetry(r)
         IN  /\ q.targets = NoTargets /\ q.only = r.only /\ q.counted = r.counted
             /\ SameCount(q, r) /\ q.method = r.method /\ q.due = r.due
             /\ q.error = "none" /\ q.reason = "none"
BY ClearedFields, ClearedType DEF SameRecord, SameCount, ClearedForRetry, Row

\* The start of an attempt.
LEMMA StartedFields ==
  ASSUME NEW r \in Row, NEW t, NEW expired PROVE Begun(Started(r, t, expired), r)
BY ClearedForRetryFields, ClearedForRetryType DEF Begun, SameCount, Started, Row

\* The schedule of a retry.
LEMMA RetryingFields ==
  ASSUME NEW r \in Row, NEW a, NEW e, NEW reason
  PROVE  LET q == Retrying(r, a, e, reason)
         IN  /\ SameRecord(q, r) /\ q.state = "queued" /\ q.status = "queued"
             /\ q.attempts = a /\ q.budget = r.budget /\ q.error = e /\ q.reason = reason
BY DEF SameRecord, Retrying, Row

\* A failure.
LEMMA FailedFields ==
  ASSUME NEW r \in Row, NEW e
  PROVE  LET q == Failed(r, e)
         IN  /\ SameRecord(q, r) /\ SameCount(q, r) /\ q.state = "failed"
             /\ q.status = "failed" /\ q.method = r.method /\ q.error = e
BY DEF SameRecord, SameCount, Failed, Row

\* A failure together with the number of attempts.
LEMMA FailedCountedFields ==
  ASSUME NEW r \in Row, NEW e \in Errors, NEW a
  PROVE  LET q == [Failed(r, e) EXCEPT !.attempts = a]
         IN  /\ SameRecord(q, r) /\ q.budget = r.budget /\ q.state = "failed"
             /\ q.status = "failed" /\ q.method = r.method /\ q.error = e
<1> DEFINE f == Failed(r, e)
<1>1. f \in Row
  BY FailedType
<1>2. /\ SameRecord(f, r) /\ SameCount(f, r) /\ f.state = "failed"
      /\ f.status = "failed" /\ f.method = r.method /\ f.error = e
  BY FailedFields
<1> HIDE DEF f
<1>3. LET q == [f EXCEPT !.attempts = a]
      IN  /\ SameRecord(q, r) /\ q.budget = r.budget /\ q.state = "failed"
          /\ q.status = "failed" /\ q.method = r.method /\ q.error = e
  BY <1>1, <1>2 DEF SameRecord, SameCount, Row
<1>4. QED
  BY <1>3 DEF f

\* The fallback to propagation.
LEMMA ForPropagationFields ==
  ASSUME NEW r \in Row
  PROVE  LET q == ForPropagation(r)
         IN  SameRecord(q, r) /\ q.state = "queued" /\ q.status = "queued"
BY DEF SameRecord, ForPropagation, Row

\* The retry after an error.
LEMMA FailureRetryFields ==
  ASSUME NEW r \in Row, NEW c \in Row, NEW e \in Errors \cup {"none"}
  PROVE  LET q == AfterFailureRetry(r, c, e)
         IN  /\ SameRecord(q, r) /\ q.state = "queued" /\ q.status = "queued"
             /\ q.attempts = NextAttempt(c) /\ q.error = e /\ q.reason = ReasonFor(e)
             /\ q.budget = (e = "rate_limited" \/ BudgetActive(c))
<1> DEFINE s == Retrying(r, NextAttempt(c), e, ReasonFor(e))
           b == e = "rate_limited" \/ BudgetActive(c)
<1>1. ReasonFor(e) \in Reasons
  BY DEF ReasonFor, Reasons
<1>2. s \in Row
  BY <1>1, NextAttemptType, RetryingType
<1>3. /\ SameRecord(s, r) /\ s.state = "queued" /\ s.status = "queued"
      /\ s.attempts = NextAttempt(c) /\ s.error = e /\ s.reason = ReasonFor(e)
  BY RetryingFields
<1> HIDE DEF s, b
<1>4. LET q == [s EXCEPT !.budget = b]
      IN  /\ SameRecord(q, r) /\ q.state = "queued" /\ q.status = "queued"
          /\ q.attempts = NextAttempt(c) /\ q.error = e /\ q.reason = ReasonFor(e)
          /\ q.budget = b
  BY <1>2, <1>3 DEF SameRecord, Row
<1>5. QED
  BY <1>4 DEF AfterFailureRetry, s, b

\* The timeout of a dispatch: only a row that is not to fall back to propagation fails.
LEMMA DispatchTimeoutFields ==
  ASSUME NEW m, NEW r \in Row
  PROVE  LET q == AfterDispatchTimeout(m, r)
         IN  /\ q.only = r.only /\ q.counted = r.counted /\ q.targets \in {r.targets, NoTargets}
             /\ \/ q.state = "queued" /\ q.status = "queued"
                \/ q.state = "failed" /\ q.status = "failed"
             /\ q.state = "failed" => ~(m \in Multi /\ q.method = "direct")
             /\ m \notin Multi =>
                  /\ q.budget = r.budget
                  /\ q.state = "queued" =>
                       /\ q.attempts = NextAttempt(r) /\ Allowed(m, r, FALSE)
                       /\ q.error = "send_timeout" /\ q.reason = "retryable"
<1> DEFINE late == [r EXCEPT !.dexp = FALSE]
           a == NextAttempt(r)
           retried == Retrying(late, a, "send_timeout", "retryable")
           given == [Failed(late, "send_timeout") EXCEPT !.attempts = a]
           fallback == ForPropagation(ClearedForRetry(r))
           Ends(q) ==
             /\ q.only = r.only /\ q.counted = r.counted /\ q.targets \in {r.targets, NoTargets}
             /\ \/ q.state = "queued" /\ q.status = "queued"
                \/ q.state = "failed" /\ q.status = "failed"
             /\ q.state = "failed" => ~(m \in Multi /\ q.method = "direct")
             /\ m \notin Multi =>
                  /\ q.budget = r.budget
                  /\ q.state = "queued" =>
                       /\ q.attempts = a /\ Allowed(m, r, FALSE)
                       /\ q.error = "send_timeout" /\ q.reason = "retryable"
<1>1. late \in Row
  BY FlagTypes
<1>2. SameRecord(late, r) /\ late.budget = r.budget /\ late.method = r.method
  BY DEF SameRecord, Row
<1> HIDE DEF late, a
<1>3. /\ SameRecord(retried, late) /\ retried.state = "queued" /\ retried.status = "queued"
      /\ retried.attempts = a /\ retried.budget = late.budget
      /\ retried.error = "send_timeout" /\ retried.reason = "retryable"
  BY <1>1, RetryingFields
<1>4. /\ SameRecord(given, late) /\ given.budget = late.budget /\ given.state = "failed"
      /\ given.status = "failed" /\ given.method = late.method
  <2>1. "send_timeout" \in Errors
    BY DEF Errors
  <2>2. QED
    BY <1>1, <2>1, FailedCountedFields
<1>5. /\ SameRecord(fallback, ClearedForRetry(r)) /\ fallback.state = "queued"
      /\ fallback.status = "queued"
  BY ClearedForRetryType, ForPropagationFields
<1>6. ClearedForRetry(r).targets = NoTargets /\ ClearedForRetry(r).only = r.only
      /\ ClearedForRetry(r).counted = r.counted
  BY ClearedForRetryFields
<1>7. \/ AfterDispatchTimeout(m, r) = fallback /\ m \in Multi
      \/ AfterDispatchTimeout(m, r) = retried /\ Allowed(m, r, FALSE)
      \/ AfterDispatchTimeout(m, r) = given /\ ~(m \in Multi /\ r.method = "direct")
  BY DEF AfterDispatchTimeout, late, a
<1> HIDE DEF retried, given, fallback
<1>8. m \in Multi => Ends(fallback)
  BY <1>5, <1>6 DEF SameRecord
<1>9. Allowed(m, r, FALSE) => Ends(retried)
  BY <1>2, <1>3 DEF SameRecord
<1>10. ~(m \in Multi /\ r.method = "direct") => Ends(given)
  BY <1>2, <1>4 DEF SameRecord
<1>11. Ends(AfterDispatchTimeout(m, r))
  <2> HIDE DEF Ends
  <2>1. QED
    BY <1>7, <1>8, <1>9, <1>10
<1>12. QED
  BY <1>11 DEF a

\* The timeout of a receipt.
LEMMA ReceiptTimeoutFields ==
  ASSUME NEW r \in Row
  PROVE  LET q == AfterReceiptTimeout(r)
         IN  /\ SameRecord(q, r) /\ q.budget = r.budget
             /\ \/ q.state = "failed" /\ q.status = "failed" /\ q.error = "other"
                \/ /\ q.state = r.state /\ q.status = r.status /\ q.method = r.method
                   /\ q.error = r.error
<1>1. ASSUME NEW e
      PROVE  LET q == [r EXCEPT !.ext = e, !.rexp = FALSE]
             IN  /\ SameRecord(q, r) /\ q.budget = r.budget /\ q.state = r.state
                 /\ q.status = r.status /\ q.method = r.method /\ q.error = r.error
  BY DEF SameRecord, Row
<1>2. LET q == [Failed(r, "other") EXCEPT !.attempts = NextAttempt(r)]
      IN  /\ SameRecord(q, r) /\ q.budget = r.budget /\ q.state = "failed"
          /\ q.status = "failed" /\ q.error = "other"
  BY FailedCountedFields DEF Errors
<1>3. QED
  BY <1>1, <1>2 DEF AfterReceiptTimeout

\* The startup repair writes rows that were settled only.
LEMMA RepairedFields ==
  ASSUME NEW m, NEW r \in Row
  PROVE  LET q == Repaired(m, r)
         IN  /\ q.only = r.only /\ q.state = r.state /\ q.status = r.status
             /\ SameCount(q, r) /\ q.method = r.method
             /\ \A k \in Keys : q.targets[k] \in {r.targets[k], "none"}
             /\ \/ q = r
                \/ /\ q.state \in {"sent", "delivered", "propagating", "propagated"}
                   /\ q.counted = r.counted \/ q.counted
<1> DEFINE c == Cleared(r)
           w(ts) == [c EXCEPT !.pending = FALSE, !.counted = TRUE, !.targets = ts]
           part(kept) == [k \in Keys |-> IF k \in kept THEN r.targets[k] ELSE "none"]
           settled == {"sent", "delivered", "propagating", "propagated"}
           Repairs(q) ==
             /\ q.only = r.only /\ q.state = r.state /\ q.status = r.status
             /\ SameCount(q, r) /\ q.method = r.method
             /\ \A k \in Keys : q.targets[k] \in {r.targets[k], "none"}
             /\ \/ q = r
                \/ q.state \in settled /\ (q.counted = r.counted \/ q.counted)
<1>1. c \in Row /\ SameRecord(c, r) /\ SameCount(c, r) /\ c.state = r.state
      /\ c.status = r.status /\ c.method = r.method
  BY ClearedType, ClearedFields
<1>2. Repairs(r)
  BY DEF SameCount
<1>3. \/ Repaired(m, r) = r
      \/ r.state \in settled /\ (Repaired(m, r) = c \/ \E kept : Repaired(m, r) = w(part(kept)))
  BY DEF Repaired
<1> HIDE DEF c
<1>4. r.state \in settled => Repairs(c)
  BY <1>1 DEF SameRecord
<1>5. ASSUME r.state \in settled, NEW kept PROVE Repairs(w(part(kept)))
  <2> DEFINE ts == part(kept)
             q == w(ts)
  <2>1. \A k \in Keys : ts[k] \in {r.targets[k], "none"}
    OBVIOUS
  <2> HIDE DEF ts
  <2>2. /\ q.only = r.only /\ q.counted /\ q.targets = ts /\ SameCount(q, r)
        /\ q.state = r.state /\ q.status = r.status /\ q.method = r.method
    BY <1>1 DEF SameRecord, SameCount, Row
  <2> HIDE DEF q
  <2>3. Repairs(q)
    BY <1>5, <2>1, <2>2
  <2>4. QED
    BY <2>3 DEF q, ts
<1>6. Repairs(Repaired(m, r))
  <2> HIDE DEF Repairs, w, part
  <2>1. QED
    BY <1>2, <1>3, <1>4, <1>5
<1>7. QED
  BY <1>6

-----------------------------------------------------------------------------
(* Most steps narrow a row: they add no target and no destination to it    *)
(* and do not make it ready for a dispatch it was not ready for.           *)

Narrows(m, q, r) ==
  /\ q.only = r.only
  /\ \A k \in Keys : q.targets[k] \in {r.targets[k], "none"}
  /\ q.counted = r.counted \/ (q.counted /\ q.state \notin {"absent", "queued"})
  /\ q.status = "in_progress" => q.state = "queued"
  /\ q.state = "absent" => r.state = "absent"
  /\ q.state = "queued" /\ m \notin Multi => r.state = "queued"
  /\ Ready(m, q) => Ready(m, r)

\* A row that is narrowed still fits.
LEMMA NarrowsKeepsFit ==
  ASSUME NEW m \in Msgs, NEW r, NEW q, RowFits(m, r), Narrows(m, q, r)
  PROVE  RowFits(m, q)
<1> USE DEF Narrows, RowFits
<1>1. Listed(q.targets) \subseteq Listed(r.targets)
  BY DEF Listed
<1>2. TargetsWithin(m, q)
  BY <1>1 DEF TargetsWithin
<1>3. ASSUME Ready(m, q), NEW d \in Destinations(m, q) PROVE Unanswered(m, q, d)
  <2>1. Ready(m, r) /\ d \in Destinations(m, r)
    BY <1>3 DEF Destinations
  <2>2. d \in Keys
    BY <1>3, DestinationsType DEF Keys
  <2>3. Unanswered(m, r, d) /\ q.targets[d] \in {r.targets[d], "none"}
    BY <2>1, <2>2
  <2>4. QED
    BY <2>3 DEF Unanswered, SuccessTerminal
<1>4. QED
  BY <1>2, <1>3

\* A row whose record stays, and which is not made ready, is narrowed.
LEMMA SameRecordNarrows ==
  ASSUME NEW m, NEW r \in Row, NEW q, q.only = r.only, q.counted = r.counted,
         q.targets \in {r.targets, NoTargets},
         q.status = "in_progress" => q.state = "queued",
         q.state = "absent" => r.state = "absent",
         q.state = "queued" /\ m \notin Multi => r.state = "queued",
         Ready(m, q) => Ready(m, r)
  PROVE  Narrows(m, q, r)
BY DEF Narrows, NoTargets

\* What is due is ready, and a targeted message is due from the queue only.
LEMMA DueIsReady ==
  ASSUME NEW m, NEW r \in Row, RetryDue(m, r)
  PROVE  Ready(m, r) /\ r.due /\ (m \notin Multi => r.state = "queued")
BY DEF RetryDue, DirectTimeoutDue, FallbackRetryDue, Fallback, PartialOk, Ready, Row

-----------------------------------------------------------------------------
(* The steps that list receipt targets.                                    *)

\* The receipt list an attempt or a poll starts from.
LEMMA StoredFields ==
  ASSUME NEW m \in Msgs, NEW c \in Row, NEW ts \in {TargetsOf(m, c), StoredTargets(m, c)}
  PROVE  /\ TargetsWithin(m, c) =>
              \A k \in Listed(ts) : k \in Recipients[m] \/ (m \in Multi /\ k = Parent)
         /\ \A k \in Keys : SuccessTerminal(ts[k]) => ts[k] = c.targets[k]
         /\ m \in Multi => \A d \in Dsts : c.targets[d] = "none" => ts[d] = "none"
<1> DEFINE none == [k \in Keys |-> IF k \in PlaceholderKey(m) THEN "pending" ELSE "none"]
           Stored(s) ==
             /\ TargetsWithin(m, c) =>
                  \A k \in Listed(s) : k \in Recipients[m] \/ (m \in Multi /\ k = Parent)
             /\ \A k \in Keys : SuccessTerminal(s[k]) => s[k] = c.targets[k]
             /\ m \in Multi => \A d \in Dsts : c.targets[d] = "none" => s[d] = "none"
<1>1. Stored(c.targets)
  BY DEF TargetsWithin
<1>2. Stored(none)
  BY MessageAssumption DEF Listed, PlaceholderKey, SuccessTerminal, Keys
<1>3. Stored(NoTargets)
  BY DEF NoTargets, Listed, SuccessTerminal, Keys
<1>4. ts \in {c.targets, none, NoTargets}
  BY DEF TargetsOf, StoredTargets
<1>5. Stored(ts)
  <2> HIDE DEF Stored, none
  <2>1. QED
    BY <1>1, <1>2, <1>3, <1>4
<1>6. QED
  BY <1>5

\* What a partial acceptance writes.
LEMMA RejectedWrites ==
  ASSUME TypeOK, NEW t \in Ticks, RetryRejected(t)
  PROVE  LET m == tick[t].cur
             c == tick[t].snap[m]
             acc == tick[t].result.acc
         IN  \E q \in Row :
               /\ msgs' = [msgs EXCEPT ![m] = q]
               /\ q.state = "queued" /\ q.status = "queued" /\ q.only = tick[t].result.again
               /\ q.counted = (c.counted \/ acc # {})
               /\ q.targets = WithAccepted(StoredTargets(m, c), acc)
               /\ q.attempts = NextAttempt(c) /\ q.budget = msgs[m].budget
               /\ q.error = "other" /\ q.reason = "other"
<1> DEFINE m == tick[t].cur
           c == tick[t].snap[m]
           acc == tick[t].result.acc
           again == tick[t].result.again
           s == Retrying(msgs[m], NextAttempt(c), "other", "other")
           counted == c.counted \/ acc # {}
           ts == WithAccepted(StoredTargets(m, c), acc)
           q == [s EXCEPT !.counted = counted, !.targets = ts, !.listed = TRUE, !.only = again]
<1>1. m \in Msgs /\ c \in Row /\ msgs[m] \in Row /\ acc \in SUBSET Dsts /\ again \in SUBSET Dsts
  BY AtRowType DEF RetryRejected, Applying, AtRow, Results
<1>2. ts \in TargetLists
  BY <1>1, TargetsType, WithAcceptedType
<1>3. s \in Row
  BY <1>1, NextAttemptType, RetryingType DEF Errors, Reasons
<1>4. /\ s.state = "queued" /\ s.status = "queued" /\ s.attempts = NextAttempt(c)
      /\ s.budget = msgs[m].budget /\ s.error = "other" /\ s.reason = "other"
  BY <1>1, RetryingFields
<1>5. counted \in BOOLEAN
  BY <1>1, RowFields
<1>6. msgs' = [msgs EXCEPT ![m] = q]
  BY DEF RetryRejected
<1> HIDE DEF s, ts, counted
<1>7. q \in Row
  BY <1>1, <1>2, <1>3, <1>5, RejectedType
<1>8. /\ q.state = "queued" /\ q.status = "queued" /\ q.only = again
      /\ q.counted = counted /\ q.targets = ts /\ q.attempts = NextAttempt(c)
      /\ q.budget = msgs[m].budget /\ q.error = "other" /\ q.reason = "other"
  BY <1>3, <1>4 DEF Row
<1> HIDE DEF q
<1>9. QED
  BY <1>6, <1>7, <1>8 DEF ts, counted

\* What an acceptance writes, beside what AcceptWrites says.
LEMMA AcceptedWrites ==
  ASSUME TypeOK, NEW t \in Ticks, Accept(t)
  PROVE  LET m == tick[t].cur
             c == tick[t].snap[m]
         IN  \E q :
               /\ msgs' = [msgs EXCEPT ![m] = q]
               /\ q.state \in {"sent", "propagating"} /\ q.status = "accepted" /\ q.counted
               /\ q.targets = WithAccepted(StoredTargets(m, c), tick[t].result.acc)
               /\ q.budget = msgs[m].budget
<1> DEFINE m == tick[t].cur
           c == tick[t].snap[m]
           acc == tick[t].result.acc
           s == Cleared(msgs[m])
           wanted == /\ m \notin Unreceipted
                     /\ c.method = "propagated" => m \notin Multi
           state == IF c.method = "propagated" THEN "propagating" ELSE "sent"
           rexp == msgs[m].rexp /\ ~wanted
           ts == WithAccepted(StoredTargets(m, c), acc)
           q == [s EXCEPT !.state = state, !.status = "accepted", !.attempts = c.attempts,
                          !.counted = TRUE, !.targets = ts, !.listed = TRUE, !.only = {},
                          !.pending = wanted, !.rexp = rexp, !.retry = FALSE]
<1>1. m \in Msgs /\ msgs[m] \in Row
  BY AtRowType DEF Accept, Applying, AtRow
<1>2. s \in Row /\ s.budget = msgs[m].budget
  BY <1>1, ClearedType, ClearedFields DEF SameCount
<1>3. msgs' = [msgs EXCEPT ![m] = q]
  BY DEF Accept
<1>4. state \in {"sent", "propagating"}
  OBVIOUS
<1> HIDE DEF s, state, ts, wanted, rexp
<1>5. /\ q.state = state /\ q.status = "accepted" /\ q.counted /\ q.targets = ts
      /\ q.budget = msgs[m].budget
  BY <1>2 DEF Row
<1> HIDE DEF q
<1>6. QED
  BY <1>3, <1>4, <1>5 DEF ts

\* What a poll writes, beside what UpdateWrites says.
LEMMA PolledWrites ==
  ASSUME TypeOK, NEW t \in Ticks, UpdateTargets(t)
  PROVE  LET m == tick[t].cur
             r == msgs[m]
             seen == tick[t].seen
             targets == TargetsOf(m, r)
         IN  \E q \in Row :
               /\ msgs' = [msgs EXCEPT ![m] = q]
               /\ \/ q = r
                  \/ /\ PollCandidate(m, r)
                     /\ q.only = r.only /\ q.counted = r.counted /\ SameCount(q, r)
                     /\ q.state = r.state /\ q.status = r.status /\ q.method = r.method
                     /\ q.error = r.error /\ q.reason = r.reason /\ q.pending = r.pending
                     /\ \A k \in Keys :
                          \/ q.targets[k] = targets[k]
                          \/ targets[k] # "none" /\ q.targets[k] = "waiting"
                          \/ targets[k] # "none" /\ q.targets[k] = seen[k]
<1> DEFINE m == tick[t].cur
           r == msgs[m]
           seen == tick[t].seen
           targets == TargetsOf(m, r)
           new == [k \in Keys |->
                    IF targets[k] = "none" \/ seen[k] = "none" THEN targets[k]
                    ELSE IF seen[k] = "unannounced" /\ PartialOk(m, r) THEN "waiting"
                    ELSE seen[k]]
           row == [r EXCEPT !.listed = TRUE, !.targets = new]
<1>1. m \in Msgs /\ r \in Row /\ seen \in TargetLists
  BY AtRowType DEF UpdateTargets, AtRow
<1>2. targets \in TargetLists
  BY <1>1, TargetsType
<1>3. /\ new \in TargetLists
      /\ \A k \in Keys : \/ new[k] = targets[k]
                         \/ targets[k] # "none" /\ new[k] = "waiting"
                         \/ targets[k] # "none" /\ new[k] = seen[k]
  <2> HIDE DEF targets, seen, r
  <2>1. QED
    BY <1>1, <1>2 DEF TargetLists, Statuses
<1>4. msgs' = [msgs EXCEPT ![m] = IF ~PollCandidate(m, r) THEN r ELSE row]
  BY DEF UpdateTargets
<1> HIDE DEF new
<1>5. row \in Row
  BY <1>1, <1>3, PolledType
<1>6. /\ row.only = r.only /\ row.counted = r.counted /\ SameCount(row, r)
      /\ row.state = r.state /\ row.status = r.status /\ row.method = r.method
      /\ row.error = r.error /\ row.reason = r.reason /\ row.pending = r.pending
      /\ row.targets = new
  BY <1>1 DEF SameCount, Row
<1> HIDE DEF row, targets, seen
<1>7. CASE ~PollCandidate(m, r)
  BY <1>1, <1>4, <1>7
<1>8. CASE PollCandidate(m, r)
  BY <1>3, <1>4, <1>5, <1>6, <1>8 DEF targets, seen
<1>9. QED
  BY <1>7, <1>8

\* A row that a poll has settled.
LEMMA AcknowledgedFields ==
  ASSUME NEW r \in Row, NEW state
  PROVE  LET q == [Acknowledged(r) EXCEPT !.state = state]
         IN  /\ SameRecord(q, r) /\ SameCount(q, r) /\ q.state = state /\ q.status = "accepted"
             /\ q.method = r.method
<1>1. LET c == Cleared(r)
      IN  c \in Row /\ SameRecord(c, r) /\ SameCount(c, r) /\ c.method = r.method
  BY ClearedType, ClearedFields
<1>2. LET a == Acknowledged(r)
      IN  /\ a \in Row /\ SameRecord(a, r) /\ SameCount(a, r) /\ a.status = "accepted"
          /\ a.method = r.method
  <2> DEFINE c == Cleared(r)
             a == [c EXCEPT !.status = "accepted", !.pending = FALSE]
  <2>1. a \in Row
    BY AcknowledgedType DEF Acknowledged
  <2> HIDE DEF c
  <2>2. SameRecord(a, c) /\ SameCount(a, c) /\ a.status = "accepted" /\ a.method = c.method
    BY <1>1 DEF SameRecord, SameCount, Row, c
  <2>3. QED
    BY <1>1, <2>1, <2>2 DEF SameRecord, SameCount, Acknowledged, c
<1>3. QED
  BY <1>2 DEF SameRecord, SameCount, Row

\* A step of a tick narrows every row, except for the one whose targets it lists.
LEMMA TickStepShape ==
  ASSUME OneTickOnly, SettledInv, ClonesInv, NEW t \in Ticks, TickStep(t), NEW n \in Msgs
  PROVE  \/ Narrows(n, msgs'[n], msgs[n])
         \/ n = tick[t].cur /\ (RetryRejected(t) \/ Accept(t) \/ UpdateTargets(t))
<1> DEFINE m == tick[t].cur
           c == tick[t].snap[m]
<1> USE DEF SettledInv, TypeOK
<1>1. ASSUME NEW k \in Msgs PROVE msgs[k] \in Row /\ RowFits(k, msgs[k])
  BY DEF ClonesInv, RowsFit
<1>2. Narrows(n, msgs[n], msgs[n])
  BY <1>1 DEF Narrows, RowFits
<1>3. ASSUME NEW k, NEW q, msgs' = [msgs EXCEPT ![k] = q], k = n => Narrows(n, q, msgs[n])
      PROVE  Narrows(n, msgs'[n], msgs[n])
  BY <1>2, <1>3
<1>4. ASSUME msgs' = msgs PROVE Narrows(n, msgs'[n], msgs[n])
  BY <1>2, <1>4
<1>5. CASE StartTick(t)
  <2>1. CASE DispatchPending(n, msgs[n]) /\ msgs[n].dexp
    <3> DEFINE r == msgs[n]
               q == AfterDispatchTimeout(n, r)
    <3>1. r \in Row /\ r.state = "queued"
      BY <1>1, <2>1 DEF DispatchPending, RowFits
    <3> HIDE DEF r
    <3>2. /\ q.only = r.only /\ q.counted = r.counted /\ q.targets \in {r.targets, NoTargets}
          /\ q.status # "in_progress" /\ q.state # "absent"
      BY <3>1, DispatchTimeoutFields
    <3> USE DEF r
    <3>3. Ready(n, r)
      BY <3>1 DEF Ready
    <3>4. msgs'[n] = q
      BY <1>5, <2>1 DEF StartTick
    <3> HIDE DEF r, q
    <3>5. Narrows(n, q, r)
      BY <3>1, <3>2, <3>3, SameRecordNarrows
    <3>6. QED
      BY <3>4, <3>5 DEF r
  <2>2. CASE ~(DispatchPending(n, msgs[n]) /\ msgs[n].dexp)
    BY <1>2, <1>5, <2>2 DEF StartTick
  <2>3. QED
    BY <2>1, <2>2
<1>6. ASSUME NEW k \in Msgs, RepairDirectTimeout(t, k) PROVE Narrows(n, msgs'[n], msgs[n])
  <2>1. msgs[k] = tick[t].snap[k] /\ RetryDue(k, msgs[k]) /\ k \in Multi
    BY <1>6 DEF RepairDirectTimeout, ClonesInv, ClonesCurrent, InHand, DirectTimeoutDue
  <2>2. /\ SameRecord(ForPropagation(msgs[k]), msgs[k])
        /\ ForPropagation(msgs[k]).state = "queued" /\ ForPropagation(msgs[k]).status = "queued"
    BY <1>1, ForPropagationFields
  <2>3. Narrows(k, ForPropagation(msgs[k]), msgs[k])
    BY <1>1, <2>1, <2>2, DueIsReady, SameRecordNarrows DEF SameRecord
  <2>4. QED
    BY <1>3, <1>6, <2>3 DEF RepairDirectTimeout
<1>7. ASSUME NEW k \in Msgs, BeginAttempt(t, k) PROVE Narrows(n, msgs'[n], msgs[n])
  <2>1. RetryDue(k, msgs[k])
    BY <1>7 DEF BeginAttempt, ClonesInv, ClonesCurrent, InHand
  <2>2. Ready(k, msgs[k]) /\ (k \notin Multi => msgs[k].state = "queued")
    BY <1>1, <2>1, DueIsReady
  <2>3. PICK expired : msgs' = [msgs EXCEPT ![k] = Started(msgs[k], t, expired)]
    BY <1>7 DEF BeginAttempt
  <2>4. Begun(Started(msgs[k], t, expired), msgs[k])
    BY <1>1, StartedFields
  <2>5. Narrows(k, Started(msgs[k], t, expired), msgs[k])
    BY <1>1, <2>2, <2>4, SameRecordNarrows DEF Begun
  <2>6. QED
    BY <1>3, <2>3, <2>5
<1>8. ASSUME tick[t].pc = "apply"
      PROVE  /\ m \in Msgs /\ c \in Row /\ msgs[m].state = "queued"
             /\ tick[t].result.err \in Errors \cup {"none"}
  BY <1>8, AtRowOpen DEF ClonesInv, ClonesCurrent, InHand, Begun, Results
<1>9. CASE RetryFailure(t)
  <2> DEFINE e == tick[t].result.err
             q == AfterFailureRetry(msgs[m], c, e)
  <2>1. m \in Msgs /\ c \in Row /\ msgs[m].state = "queued"
    BY <1>8, <1>9 DEF RetryFailure, Applying
  <2>2. SameRecord(q, msgs[m]) /\ q.state = "queued" /\ q.status = "queued"
    BY <1>1, <1>8, <1>9, FailureRetryFields DEF RetryFailure, Applying
  <2>3. msgs' = [msgs EXCEPT ![m] = q]
    BY <1>9 DEF RetryFailure
  <2> HIDE DEF q
  <2>4. Narrows(m, q, msgs[m])
    BY <1>1, <2>1, <2>2, SameRecordNarrows DEF SameRecord, Ready
  <2>5. QED
    BY <1>3, <2>3, <2>4
<1>10. CASE GiveUp(t)
  <2>1. m \in Msgs /\ msgs[m].state = "queued"
    BY <1>8, <1>10 DEF GiveUp, Applying
  <2>2. PICK e, a :
          /\ e \in Errors \cup {"none"}
          /\ msgs' = [msgs EXCEPT ![m] = [Failed(msgs[m], e) EXCEPT !.attempts = a]]
    BY <1>8, <1>10 DEF GiveUp, Applying, Errors
  <2> DEFINE f == Failed(msgs[m], e)
             q == [f EXCEPT !.attempts = a]
  <2>3. f \in Row /\ SameRecord(f, msgs[m]) /\ f.state = "failed" /\ f.status = "failed"
    BY <1>1, <2>1, <2>2, FailedType, FailedFields
  <2> HIDE DEF f
  <2>4. SameRecord(q, msgs[m]) /\ q.state = "failed" /\ q.status = "failed"
    BY <2>3 DEF SameRecord, Row
  <2>5. msgs' = [msgs EXCEPT ![m] = q]
    BY <2>2 DEF f
  <2> HIDE DEF q
  <2>6. Narrows(m, q, msgs[m])
    BY <1>1, <2>1, <2>4, SameRecordNarrows DEF SameRecord, Ready
  <2>7. QED
    BY <1>3, <2>5, <2>6
<1>11. CASE Settle(t)
  <2>1. m \in Msgs /\ msgs[m] \in Row
    BY <1>11, AtRowType DEF Settle, AtRow
  <2>2. PICK q : /\ msgs' = [msgs EXCEPT ![m] = q]
                 /\ \/ q = msgs[m] \/ q = Failed(msgs[m], "other")
                    \/ \E state \in {"sent", "delivered", "propagated"} :
                         q = [Acknowledged(msgs[m]) EXCEPT !.state = state]
    BY <1>11 DEF Settle, SuccessState
  <2>3. CASE q = Failed(msgs[m], "other")
    <3>1. SameRecord(q, msgs[m]) /\ q.state = "failed" /\ q.status = "failed" /\ q.error = "other"
      BY <2>1, <2>3, FailedFields
    <3>2. Narrows(m, q, msgs[m])
      BY <2>1, <3>1, SameRecordNarrows DEF SameRecord, Ready
    <3>3. QED
      BY <1>3, <2>2, <3>2
  <2>4. ASSUME NEW state \in {"sent", "delivered", "propagated"},
               q = [Acknowledged(msgs[m]) EXCEPT !.state = state]
        PROVE  Narrows(n, msgs'[n], msgs[n])
    <3> DEFINE p == [Acknowledged(msgs[m]) EXCEPT !.state = state]
    <3>1. SameRecord(p, msgs[m]) /\ p.state = state /\ p.status = "accepted"
      <4> DEFINE r == msgs[m]
      <4>1. r \in Row
        BY <2>1
      <4> HIDE DEF r
      <4>2. SameRecord([Acknowledged(r) EXCEPT !.state = state], r)
        BY <4>1, AcknowledgedFields
      <4>3. /\ [Acknowledged(r) EXCEPT !.state = state].state = state
            /\ [Acknowledged(r) EXCEPT !.state = state].status = "accepted"
        BY <4>1, AcknowledgedFields
      <4>4. QED
        BY <4>2, <4>3 DEF r
    <3> HIDE DEF p
    <3>2. Narrows(m, p, msgs[m])
      BY <2>1, <3>1, SameRecordNarrows DEF SameRecord, Ready
    <3>3. QED
      BY <1>3, <2>2, <2>4, <3>2 DEF p
  <2>5. QED
    BY <1>2, <2>1, <2>2, <2>3, <2>4
<1>12. CASE FinalizeReceipts(t)
  <2>1. msgs'[n] \in {msgs[n], AfterReceiptTimeout(msgs[n])}
    BY <1>12 DEF FinalizeReceipts
  <2> DEFINE q == AfterReceiptTimeout(msgs[n])
  <2>2. /\ SameRecord(q, msgs[n])
        /\ \/ q.state = "failed" /\ q.status = "failed" /\ q.error = "other"
           \/ /\ q.state = msgs[n].state /\ q.status = msgs[n].status
              /\ q.method = msgs[n].method /\ q.error = msgs[n].error
    BY <1>1, ReceiptTimeoutFields
  <2> HIDE DEF q
  <2>3. Narrows(n, q, msgs[n])
    BY <1>1, <2>2, SameRecordNarrows DEF SameRecord, Ready, RowFits
  <2>4. QED
    BY <1>2, <2>1, <2>3 DEF q
<1>13. CASE \/ SelectDue(t) \/ DispatchAnswered(t) \/ DispatchErred(t) \/ CheckCurrent(t)
            \/ ScanReceipts(t) \/ LoopEnds(t) \/ \E k \in Msgs : PollStatus(t, k)
  BY <1>4, <1>13 DEF SelectDue, DispatchAnswered, DispatchErred, CheckCurrent,
     ScanReceipts, LoopEnds, PollStatus
<1>14. CASE RetryRejected(t) \/ Accept(t) \/ UpdateTargets(t)
  <2>1. \E q : msgs' = [msgs EXCEPT ![m] = q]
    BY <1>14 DEF RetryRejected, Accept, UpdateTargets
  <2>2. QED
    BY <1>3, <1>14, <2>1
<1>15. QED
  BY <1>5, <1>6, <1>7, <1>9, <1>10, <1>11, <1>12, <1>13, <1>14 DEF TickStep

\* Every step does: only a new message and the three steps that list targets do more.
LEMMA StepShape ==
  ASSUME OneTickOnly, SettledInv, ClonesInv, [Next]_vars, NEW n \in Msgs
  PROVE  \/ Narrows(n, msgs'[n], msgs[n])
         \/ Record(n)
         \/ \E t \in Ticks : /\ n = tick[t].cur
                             /\ RetryRejected(t) \/ Accept(t) \/ UpdateTargets(t)
<1> USE DEF SettledInv, TypeOK
<1>1. msgs[n] \in Row /\ RowFits(n, msgs[n])
  BY DEF ClonesInv, RowsFit
<1>2. Narrows(n, msgs[n], msgs[n])
  BY <1>1 DEF Narrows, RowFits
<1>3. ASSUME NEW t \in Ticks, TickStep(t)
      PROVE  \/ Narrows(n, msgs'[n], msgs[n])
             \/ n = tick[t].cur /\ (RetryRejected(t) \/ Accept(t) \/ UpdateTargets(t))
  BY <1>3, TickStepShape
<1>4. ASSUME NEW m \in Msgs, AdapterStep(m) PROVE FALSE
  BY <1>4 DEF OneTickOnly, AdapterStep, CallbackOn, ReceiptCallback, FailureRead, FailureWrite,
     RetryCallback, PropagationCallback, DropCallback, AttemptCallback
<1>5. ASSUME NEW m \in Msgs, Record(m) PROVE Narrows(n, msgs'[n], msgs[n]) \/ Record(n)
  BY <1>2, <1>5 DEF Record
<1>6. ASSUME NEW m \in Msgs, TimeStep(m) PROVE Narrows(n, msgs'[n], msgs[n])
  <2>1. PICK q \in {[msgs[m] EXCEPT !.due = TRUE], [msgs[m] EXCEPT !.dexp = TRUE],
                    [msgs[m] EXCEPT !.rexp = TRUE]} : msgs' = [msgs EXCEPT ![m] = q]
    BY <1>6 DEF TimeStep, BackoffElapses, DispatchDeadline, ReceiptDeadline
  <2>2. CASE m = n
    <3>1. OnlyFlags(q, msgs[n])
      BY <1>1, <2>1, <2>2, FlagFields
    <3>2. Narrows(n, q, msgs[n])
      BY <1>1, <3>1, SameRecordNarrows DEF OnlyFlags, SameRecord, Ready, RowFits
    <3>3. QED
      BY <2>1, <2>2, <3>2
  <2>3. CASE m # n
    BY <1>2, <2>1, <2>3
  <2>4. QED
    BY <2>2, <2>3
<1>7. CASE CrashAndRestart
  <2> DEFINE q == Repaired(n, msgs[n])
  <2>1. msgs'[n] = q
    BY <1>7 DEF CrashAndRestart
  <2>2. /\ q.only = msgs[n].only /\ q.state = msgs[n].state /\ q.status = msgs[n].status
        /\ \A k \in Keys : q.targets[k] \in {msgs[n].targets[k], "none"}
        /\ \/ q = msgs[n]
           \/ /\ q.state \in {"sent", "delivered", "propagating", "propagated"}
              /\ q.counted = msgs[n].counted \/ q.counted
    BY <1>1, RepairedFields
  <2> HIDE DEF q
  <2>3. CASE q = msgs[n]
    BY <1>2, <2>1, <2>3
  <2>4. CASE q # msgs[n]
    <3>1. Ready(n, q) => Ready(n, msgs[n])
      BY <2>2, <2>4 DEF Ready
    <3>2. Narrows(n, q, msgs[n])
      BY <1>1, <2>2, <2>4, <3>1 DEF Narrows, RowFits
    <3>3. QED
      BY <2>1, <3>2
  <2>5. QED
    BY <2>3, <2>4
<1>8. CASE \/ \E m \in Msgs, d \in Dsts : RdProgress(m, d)
           \/ \E t \in Ticks : TickOverdue(t)
           \/ UNCHANGED vars
  BY <1>2, <1>8 DEF RdProgress, TickOverdue, Passing, vars
<1>9. QED
  BY <1>3, <1>4, <1>5, <1>6, <1>7, <1>8 DEF Next

\* The clone of the row a tick is about to write fits, and was dispatched as due.
LEMMA ApplyingFits ==
  ASSUME SettledInv, ClonesInv, NEW t \in Ticks, Applying(t)
  PROVE  LET m == tick[t].cur
             c == tick[t].snap[m]
             r == msgs[m]
         IN  /\ m \in Msgs /\ c \in Row /\ r \in Row
             /\ RowFits(m, c) /\ RetryDue(m, c) /\ Ready(m, c)
             /\ m \notin Multi => c.state = "queued" /\ ~c.counted
             /\ Begun(r, c) /\ AnswersFit(Destinations(m, c), tick[t].result)
<1>1. /\ tick[t].cur \in Msgs /\ tick[t].cur \in tick[t].work
      /\ tick[t].snap[tick[t].cur] \in Row /\ msgs[tick[t].cur] \in Row
  BY AtRowType DEF SettledInv, Applying, AtRow
<1>2. /\ RowFits(tick[t].cur, tick[t].snap[tick[t].cur])
      /\ RetryDue(tick[t].cur, tick[t].snap[tick[t].cur])
      /\ Begun(msgs[tick[t].cur], tick[t].snap[tick[t].cur])
      /\ AnswersFit(Destinations(tick[t].cur, tick[t].snap[tick[t].cur]), tick[t].result)
  BY <1>1 DEF ClonesInv, ClonesCurrent, ResultFits, Applying, InHand
<1>3. QED
  BY <1>1, <1>2, DueIsReady DEF RowFits

\* No recipient of a targeted message is admitted while another is rejected.
LEMMA TargetedAnswer ==
  ASSUME NEW m \in Msgs \ Multi, NEW r, NEW res, AnswersFit(Destinations(m, r), res),
         res.again # {}
  PROVE  res.acc = {}
BY MessageAssumption DEF AnswersFit, Destinations

\* The row of a partial acceptance fits: what is retried was not admitted.
LEMMA RejectedFits ==
  ASSUME SettledInv, ClonesInv, NEW t \in Ticks, RetryRejected(t)
  PROVE  RowFits(tick[t].cur, msgs'[tick[t].cur])
<1> DEFINE m == tick[t].cur
           c == tick[t].snap[m]
           acc == tick[t].result.acc
           again == tick[t].result.again
           ts == StoredTargets(m, c)
<1>1. /\ m \in Msgs /\ c \in Row
      /\ RowFits(m, c) /\ Ready(m, c) /\ (m \notin Multi => ~c.counted)
      /\ AnswersFit(Destinations(m, c), tick[t].result)
  BY ApplyingFits DEF RetryRejected
<1>2. again # {}
  BY DEF RetryRejected, RejectedMayRetry
<1>3. PICK q \in Row :
        /\ msgs' = [msgs EXCEPT ![m] = q]
        /\ q.state = "queued" /\ q.status = "queued" /\ q.only = again
        /\ q.counted = (c.counted \/ acc # {})
        /\ q.targets = WithAccepted(ts, acc)
  BY RejectedWrites DEF SettledInv
<1>4. /\ \A k \in Listed(ts) : k \in Recipients[m] \/ (m \in Multi /\ k = Parent)
      /\ \A k \in Keys : SuccessTerminal(ts[k]) => ts[k] = c.targets[k]
      /\ m \in Multi => \A d \in Dsts : c.targets[d] = "none" => ts[d] = "none"
  BY <1>1, StoredFields DEF RowFits
<1>5. msgs'[m] = q
  BY <1>1, <1>3 DEF SettledInv, TypeOK
<1>6. acc \subseteq Recipients[m] /\ again \subseteq Destinations(m, c) /\ acc \cap again = {}
  BY <1>1 DEF AnswersFit, Destinations
<1> HIDE DEF c, ts, acc, again, m
<1>7. TargetsWithin(m, q)
  BY <1>3, <1>4, <1>6 DEF TargetsWithin, Listed, WithAccepted
<1>8. m \notin Multi => ~q.counted /\ acc = {}
  BY <1>1, <1>2, <1>3, TargetedAnswer DEF acc, again
<1>9. ASSUME NEW d \in Destinations(m, q) PROVE Unanswered(m, q, d)
  <2>1. d \in Dsts /\ d \in Keys
    BY <1>1, <1>9, DestinationsType DEF Keys
  <2>2. CASE m \in Multi
    <3>1. d \in again
      BY <1>2, <1>3, <1>9, <2>2 DEF Destinations
    <3>2. c.targets[d] = "none"
      BY <1>1, <1>6, <2>2, <3>1 DEF RowFits, Unanswered
    <3>3. QED
      BY <1>3, <1>4, <1>6, <2>1, <2>2, <3>1, <3>2 DEF WithAccepted, Unanswered
  <2>3. CASE m \notin Multi
    <3>1. ~SuccessTerminal(c.targets[d])
      BY <1>1, <1>9, <2>3 DEF RowFits, Unanswered, Destinations
    <3>2. q.targets[d] = ts[d]
      BY <1>3, <1>8, <2>1, <2>3 DEF WithAccepted
    <3>3. QED
      BY <1>4, <2>1, <2>3, <3>1, <3>2 DEF Unanswered, SuccessTerminal
  <2>4. QED
    BY <2>2, <2>3
<1>10. RowFits(m, q)
  BY <1>3, <1>7, <1>8, <1>9 DEF RowFits
<1>11. QED
  BY <1>5, <1>10 DEF m

\* The row of an acceptance fits.
LEMMA AcceptFits ==
  ASSUME SettledInv, ClonesInv, NEW t \in Ticks, Accept(t)
  PROVE  RowFits(tick[t].cur, msgs'[tick[t].cur])
<1> DEFINE m == tick[t].cur
           c == tick[t].snap[m]
           acc == tick[t].result.acc
           ts == StoredTargets(m, c)
<1>1. /\ m \in Msgs /\ c \in Row /\ RowFits(m, c)
      /\ AnswersFit(Destinations(m, c), tick[t].result)
  BY ApplyingFits DEF Accept
<1>2. PICK q :
        /\ msgs' = [msgs EXCEPT ![m] = q]
        /\ q.state \in {"sent", "propagating"} /\ q.status = "accepted" /\ q.counted
        /\ q.targets = WithAccepted(ts, acc)
  BY AcceptedWrites DEF SettledInv
<1>3. \A k \in Listed(ts) : k \in Recipients[m] \/ (m \in Multi /\ k = Parent)
  BY <1>1, StoredFields DEF RowFits
<1>4. msgs'[m] = q
  BY <1>1, <1>2 DEF SettledInv, TypeOK
<1>5. acc \subseteq Recipients[m]
  BY <1>1 DEF AnswersFit, Destinations
<1> HIDE DEF c, ts, acc, m
<1>6. TargetsWithin(m, q)
  BY <1>2, <1>3, <1>5 DEF TargetsWithin, Listed, WithAccepted
<1>7. RowFits(m, q)
  BY <1>2, <1>6 DEF RowFits, Ready
<1>8. QED
  BY <1>4, <1>7 DEF m

\* A row that has been polled fits: a poll names no new recipient.
LEMMA PolledFits ==
  ASSUME SettledInv, ClonesInv, NEW t \in Ticks, UpdateTargets(t)
  PROVE  RowFits(tick[t].cur, msgs'[tick[t].cur])
<1> DEFINE m == tick[t].cur
           r == msgs[m]
           seen == tick[t].seen
           ts == TargetsOf(m, r)
<1>1. m \in Msgs /\ r \in Row
  BY AtRowType DEF SettledInv, UpdateTargets, AtRow
<1>2. RowFits(m, r) /\ Pollable(r)
  BY <1>1 DEF ClonesInv, RowsFit, SettledInv, AwaitedReceiptIsPollable, Pollable
<1>3. PICK q \in Row :
        /\ msgs' = [msgs EXCEPT ![m] = q]
        /\ \/ q = r
           \/ /\ PollCandidate(m, r)
              /\ q.only = r.only /\ q.counted = r.counted
              /\ q.state = r.state /\ q.status = r.status /\ q.method = r.method
              /\ q.error = r.error
              /\ \A k \in Keys :
                   \/ q.targets[k] = ts[k]
                   \/ ts[k] # "none" /\ q.targets[k] = "waiting"
                   \/ ts[k] # "none" /\ q.targets[k] = seen[k]
  BY PolledWrites DEF SettledInv
<1>4. msgs'[m] = q
  BY <1>1, <1>3 DEF SettledInv, TypeOK
<1>5. CASE q = r
  BY <1>2, <1>4, <1>5
<1>6. CASE q # r
  <2>1. /\ \A k \in Listed(ts) : k \in Recipients[m] \/ (m \in Multi /\ k = Parent)
        /\ m \in Multi => \A d \in Dsts : r.targets[d] = "none" => ts[d] = "none"
    BY <1>1, <1>2, StoredFields DEF RowFits
  <2>2. r.counted
    BY <1>2, <1>3, <1>6 DEF PollCandidate, Pollable
  <2> HIDE DEF ts, seen, r, m
  <2>3. TargetsWithin(m, q)
    BY <1>3, <1>6, <2>1 DEF TargetsWithin, Listed
  <2>4. Ready(m, q) => Ready(m, r)
    BY <1>3, <1>6 DEF Ready
  <2>5. ASSUME Ready(m, q), NEW d \in Destinations(m, q) PROVE Unanswered(m, q, d)
    <3>1. m \in Multi
      BY <1>2, <2>2, <2>4, <2>5 DEF RowFits, Ready
    <3>2. d \in Dsts /\ d \in Keys
      BY <1>1, <2>5, DestinationsType DEF Keys
    <3>3. Destinations(m, q) = Destinations(m, r)
      BY <1>3, <1>6 DEF Destinations
    <3>4. r.targets[d] = "none"
      BY <1>2, <2>4, <2>5, <3>1, <3>3 DEF RowFits, Unanswered
    <3>5. q.targets[d] = "none"
      BY <1>3, <1>6, <2>1, <3>1, <3>2, <3>4
    <3>6. QED
      BY <3>1, <3>5 DEF Unanswered
  <2>6. RowFits(m, q)
    BY <1>2, <1>3, <1>6, <2>3, <2>5 DEF RowFits
  <2>7. QED
    BY <1>4, <2>6 DEF m
<1>7. QED
  BY <1>5, <1>6

\* Every row fits after every step.
LEMMA RowsFitStep ==
  ASSUME OneTickOnly, SettledInv, ClonesInv, [Next]_vars PROVE RowsFit'
<1> SUFFICES ASSUME NEW n \in Msgs PROVE RowFits(n, msgs'[n])
  BY DEF RowsFit
<1>1. RowFits(n, msgs[n])
  BY DEF ClonesInv, RowsFit
<1>2. CASE Narrows(n, msgs'[n], msgs[n])
  BY <1>1, <1>2, NarrowsKeepsFit
<1>3. CASE Record(n)
  <2>1. PICK method :
          msgs' = [msgs EXCEPT ![n] = [Blank EXCEPT !.state = "queued", !.method = method,
                                         !.status = "queued", !.retry = TRUE]]
    BY <1>3 DEF Record
  <2> DEFINE q == msgs'[n]
  <2>2. q.state = "queued" /\ q.status = "queued" /\ ~q.counted /\ q.targets = NoTargets
    BY <2>1 DEF Blank, SettledInv, TypeOK
  <2> HIDE DEF q
  <2>3. \A k \in Keys : q.targets[k] = "none"
    BY <2>2 DEF NoTargets
  <2>4. TargetsWithin(n, q)
    BY <2>3 DEF TargetsWithin, Listed
  <2>5. ASSUME NEW d \in Destinations(n, q) PROVE Unanswered(n, q, d)
    BY <2>3, DestinationsType DEF Unanswered, SuccessTerminal, Keys
  <2>6. RowFits(n, q)
    BY <2>2, <2>4, <2>5 DEF RowFits
  <2>7. QED
    BY <2>6 DEF q
<1>4. QED
  BY <1>2, <1>3, StepShape, RejectedFits, AcceptFits, PolledFits

-----------------------------------------------------------------------------
(* The clones stay current.                                                *)

\* A tick that has no row in hand has no clone to keep.
LEMMA NoClonesInHand ==
  ASSUME OneTickOnly, NEW t \in Ticks, tick'[t].pc \notin InHand
  PROVE  ClonesCurrent' /\ ResultFits'
BY DEF OneTickOnly, ClonesCurrent, ResultFits, InHand

\* The locals of a tick that is done with a row, its clones included.
LEMMA DoneWithClones ==
  ASSUME TypeOK, NEW t \in Ticks, NEW m, NEW next \in {"due", "poll"}, DoneWith(t, m, next)
  PROVE  /\ tick'[t].pc = next /\ tick'[t].work = tick[t].work \ {m}
         /\ \A n \in Msgs \ {m} : tick'[t].snap[n] = tick[t].snap[n]
<1> DEFINE snap == [tick[t].snap EXCEPT ![m] = Blank]
           new == [IdleTick EXCEPT !.pc = next, !.work = tick[t].work \ {m},
             !.snap = snap, !.overdue = tick[t].overdue]
<1>1. \A n \in Msgs \ {m} : snap[n] = tick[t].snap[n]
  BY DEF TypeOK, TickLocals
<1> HIDE DEF snap
<1>2. new.pc = next /\ new.work = tick[t].work \ {m} /\ new.snap = snap
  BY DEF IdleTick
<1>3. tick' = [tick EXCEPT ![t] = new]
  BY DEF DoneWith, snap
<1> HIDE DEF new
<1>4. QED
  BY <1>1, <1>2, <1>3 DEF TypeOK

\* The tick is done with the row it wrote: the other clones are what they were.
LEMMA DoneKeepsClones ==
  ASSUME OneTickOnly, SettledInv, ClonesInv, NEW t \in Ticks, tick[t].pc \in InHand,
         NEW m, m = tick[t].cur \/ tick[t].pc = "due",
         DoneWith(t, m, "due"), \A n \in Msgs \ {m} : msgs'[n] = msgs[n]
  PROVE  ClonesCurrent' /\ ResultFits'
<1>1. /\ tick'[t].pc = "due" /\ tick'[t].work = tick[t].work \ {m}
      /\ \A n \in Msgs \ {m} : tick'[t].snap[n] = tick[t].snap[n]
  BY DoneWithClones DEF SettledInv
<1>2. tick[t].work \subseteq Msgs
  BY DEF SettledInv, TypeOK, TickLocals
<1>3. ASSUME NEW n \in tick'[t].work
      PROVE  /\ RetryDue(n, tick'[t].snap[n]) /\ RowFits(n, tick'[t].snap[n])
             /\ msgs'[n] = tick'[t].snap[n]
  <2>1. n \in tick[t].work /\ n \in Msgs \ {m}
    BY <1>1, <1>2, <1>3
  <2>2. /\ RetryDue(n, tick[t].snap[n]) /\ RowFits(n, tick[t].snap[n])
        /\ msgs[n] = tick[t].snap[n]
    BY <2>1 DEF ClonesInv, ClonesCurrent
  <2>3. QED
    BY <1>1, <2>1, <2>2
<1>4. QED
  BY <1>1, <1>3 DEF OneTickOnly, ClonesCurrent, ResultFits

\* The tick goes on with the row and the clones it has.
LEMMA GoesOnWithClones ==
  ASSUME OneTickOnly, SettledInv, ClonesInv, NEW t \in Ticks, msgs' = msgs,
         tick[t].pc \in Attempting, tick'[t].pc \in Attempting,
         tick'[t].cur = tick[t].cur, tick'[t].work = tick[t].work, tick'[t].snap = tick[t].snap,
         tick'[t].pc # "wait" =>
           AnswersFit(Destinations(tick[t].cur, tick[t].snap[tick[t].cur]), tick'[t].result)
  PROVE  ClonesCurrent' /\ ResultFits'
<1>1. ClonesCurrent'
  BY DEF OneTickOnly, ClonesInv, ClonesCurrent, Attempting, InHand
<1>2. ResultFits'
  BY DEF OneTickOnly, ResultFits
<1>3. QED
  BY <1>1, <1>2

\* An answer is about the destinations of the dispatch.
LEMMA AnsweredFits ==
  ASSUME SettledInv, NEW t \in Ticks, DispatchAnswered(t) \/ DispatchErred(t)
  PROVE  LET D == Destinations(tick[t].cur, tick[t].snap[tick[t].cur])
         IN  \E res :
               /\ AnswersFit(D, res)
               /\ tick' = [tick EXCEPT ![t].pc = "check", ![t].result = res]
<1> DEFINE D == Destinations(tick[t].cur, tick[t].snap[tick[t].cur])
<1> HIDE DEF D
<1>1. CASE DispatchAnswered(t)
  <2>1. PICK acc \in SUBSET D, again \in SUBSET D :
          /\ acc \cap again = {}
          /\ tick' = [tick EXCEPT ![t].pc = "check",
               ![t].result = [NoResult EXCEPT !.kind = "ok", !.acc = acc, !.again = again]]
    BY <1>1 DEF DispatchAnswered, D
  <2> DEFINE res == [NoResult EXCEPT !.kind = "ok", !.acc = acc, !.again = again]
  <2>2. AnswersFit(D, res)
    BY <2>1 DEF AnswersFit, NoResult
  <2> HIDE DEF res
  <2>3. tick' = [tick EXCEPT ![t].pc = "check", ![t].result = res]
    BY <2>1 DEF res
  <2>4. QED
    BY <2>2, <2>3 DEF D
<1>2. CASE DispatchErred(t)
  <2>1. PICK error \in SendErrors :
          tick' = [tick EXCEPT ![t].pc = "check",
                    ![t].result = [NoResult EXCEPT !.kind = "error", !.err = error]]
    BY <1>2 DEF DispatchErred
  <2> DEFINE res == [NoResult EXCEPT !.kind = "error", !.err = error]
  <2>2. AnswersFit(D, res)
    BY DEF AnswersFit, NoResult
  <2> HIDE DEF res
  <2>3. tick' = [tick EXCEPT ![t].pc = "check", ![t].result = res]
    BY <2>1 DEF res
  <2>4. QED
    BY <2>2, <2>3 DEF D
<1>3. QED
  BY <1>1, <1>2

\* A step of the tick keeps its clones current.
LEMMA TickStepClones ==
  ASSUME OneTickOnly, SettledInv, ClonesInv, NEW t \in Ticks, TickStep(t)
  PROVE  ClonesCurrent' /\ ResultFits'
<1> DEFINE m == tick[t].cur
           c == tick[t].snap[m]
<1> USE DEF SettledInv, TypeOK
<1>1. CASE StartTick(t) \/ ScanReceipts(t) \/ UpdateTargets(t) \/ LoopEnds(t) \/ FinalizeReceipts(t)
  <2>1. tick'[t].pc \in {"select", "poll", "verdict", "idle", "receipts"}
    <3>1. CASE StartTick(t) \/ UpdateTargets(t)
      BY <3>1 DEF StartTick, UpdateTargets, TickLocals
    <3>2. CASE ScanReceipts(t)
      BY <3>2 DEF ScanReceipts, TickLocals
    <3>3. CASE LoopEnds(t) \/ FinalizeReceipts(t)
      BY <3>3 DEF LoopEnds, FinalizeReceipts, TickLocals, IdleTick
    <3>4. QED
      BY <1>1, <3>1, <3>2, <3>3
  <2>2. QED
    BY <2>1, NoClonesInHand DEF InHand
<1>2. CASE SelectDue(t)
  <2> DEFINE due == {n \in Msgs : RetryDue(n, msgs[n])}
             pc == IF due = {} THEN "scan" ELSE "due"
             snap == [n \in Msgs |-> IF n \in due THEN msgs[n] ELSE Blank]
  <2>1. tick' = [tick EXCEPT ![t] = [tick[t] EXCEPT !.pc = pc, !.work = due, !.snap = snap]]
    BY <1>2 DEF SelectDue
  <2>2. \A n \in due : RetryDue(n, snap[n]) /\ RowFits(n, snap[n]) /\ msgs[n] = snap[n]
    BY DEF ClonesInv, RowsFit
  <2>3. pc \in {"scan", "due"}
    OBVIOUS
  <2> HIDE DEF pc, due, snap
  <2>4. tick'[t].pc = pc /\ tick'[t].work = due /\ tick'[t].snap = snap
    BY <2>1 DEF TickLocals
  <2>5. msgs' = msgs
    BY <1>2 DEF SelectDue
  <2>6. CASE pc = "scan"
    BY <2>4, <2>6, NoClonesInHand DEF InHand
  <2>7. CASE pc = "due"
    BY <2>2, <2>4, <2>5, <2>7 DEF OneTickOnly, ClonesCurrent, ResultFits
  <2>8. QED
    BY <2>3, <2>6, <2>7
<1>3. ASSUME NEW n \in Msgs, RepairDirectTimeout(t, n) PROVE ClonesCurrent' /\ ResultFits'
  BY <1>3, DoneKeepsClones DEF RepairDirectTimeout, InHand
<1>4. ASSUME NEW n \in Msgs, BeginAttempt(t, n) PROVE ClonesCurrent' /\ ResultFits'
  <2>1. PICK expired : msgs' = [msgs EXCEPT ![n] = Started(msgs[n], t, expired)]
    BY <1>4 DEF BeginAttempt
  <2>2. /\ tick'[t].pc = "wait" /\ tick'[t].cur = n
        /\ tick'[t].work = tick[t].work /\ tick'[t].snap = tick[t].snap
    BY <1>4 DEF BeginAttempt, TickLocals
  <2>3. n \in tick[t].work /\ tick[t].work \subseteq Msgs
    BY <1>4 DEF BeginAttempt, TickLocals
  <2>4. \A k \in tick[t].work : /\ RetryDue(k, tick[t].snap[k]) /\ RowFits(k, tick[t].snap[k])
                                /\ msgs[k] = tick[t].snap[k]
    BY <1>4 DEF BeginAttempt, ClonesInv, ClonesCurrent, InHand
  <2>5. Begun(Started(msgs[n], t, expired), msgs[n])
    BY <1>4, StartedFields
  <2>6. Begun(msgs'[n], tick[t].snap[n])
    BY <2>1, <2>3, <2>4, <2>5
  <2>7. \A k \in tick[t].work \ {n} : msgs'[k] = msgs[k]
    BY <2>1, <2>3
  <2>8. QED
    BY <2>2, <2>4, <2>6, <2>7 DEF OneTickOnly, ClonesCurrent, ResultFits
<1>5. CASE DispatchAnswered(t) \/ DispatchErred(t)
  <2>1. msgs' = msgs /\ tick[t].pc \in Attempting
    BY <1>5 DEF DispatchAnswered, DispatchErred, Attempting
  <2>2. PICK res : /\ AnswersFit(Destinations(m, c), res)
                   /\ tick' = [tick EXCEPT ![t].pc = "check", ![t].result = res]
    BY <1>5, AnsweredFits
  <2>3. /\ tick'[t].pc = "check" /\ tick'[t].cur = tick[t].cur /\ tick'[t].result = res
        /\ tick'[t].work = tick[t].work /\ tick'[t].snap = tick[t].snap
    BY <2>2 DEF TickLocals
  <2>4. QED
    BY <2>1, <2>2, <2>3, GoesOnWithClones DEF Attempting
<1>6. CASE CheckCurrent(t)
  <2>1. msgs' = msgs /\ tick[t].pc = "check"
    BY <1>6 DEF CheckCurrent
  <2>2. CASE tick' = [tick EXCEPT ![t].pc = "apply"]
    <3>1. /\ tick'[t].pc = "apply" /\ tick'[t].cur = tick[t].cur
          /\ tick'[t].result = tick[t].result
          /\ tick'[t].work = tick[t].work /\ tick'[t].snap = tick[t].snap
      BY <2>2 DEF TickLocals
    <3>2. AnswersFit(Destinations(m, c), tick[t].result)
      BY <2>1 DEF ClonesInv, ResultFits
    <3>3. QED
      BY <2>1, <3>1, <3>2, GoesOnWithClones DEF Attempting
  <2>3. CASE DoneWith(t, m, "due")
    BY <2>1, <2>3, DoneKeepsClones DEF InHand
  <2>4. QED
    BY <1>6, <2>2, <2>3 DEF CheckCurrent
<1>7. CASE RetryFailure(t) \/ RetryRejected(t) \/ Accept(t) \/ GiveUp(t)
  <2>1. tick[t].pc = "apply" /\ DoneWith(t, m, "due")
    BY <1>7 DEF RetryFailure, RetryRejected, Accept, GiveUp, Applying
  <2>2. \E q : msgs' = [msgs EXCEPT ![m] = q]
    BY <1>7 DEF RetryFailure, RetryRejected, Accept, GiveUp
  <2>3. \A n \in Msgs \ {m} : msgs'[n] = msgs[n]
    BY <2>2
  <2>4. QED
    BY <2>1, <2>3, DoneKeepsClones DEF InHand
<1>8. ASSUME NEW n \in Msgs, PollStatus(t, n) PROVE ClonesCurrent' /\ ResultFits'
  <2>1. tick'[t].pc \in {"poll", "update"}
    <3>1. CASE DoneWith(t, n, "poll")
      BY <3>1, DoneWithLocals
    <3>2. CASE \E seen : tick' = [tick EXCEPT ![t].pc = "update", ![t].cur = n, ![t].seen = seen]
      BY <3>2 DEF TickLocals
    <3>3. QED
      BY <1>8, <3>1, <3>2 DEF PollStatus
  <2>2. QED
    BY <2>1, NoClonesInHand DEF InHand
<1>9. CASE Settle(t)
  <2>1. tick'[t].pc = "poll"
    BY <1>9, DoneWithLocals DEF Settle
  <2>2. QED
    BY <2>1, NoClonesInHand DEF InHand
<1>10. QED
  BY <1>1, <1>2, <1>3, <1>4, <1>5, <1>6, <1>7, <1>8, <1>9 DEF TickStep

\* Nothing but its own attempt changes a row that is in the hand of the tick.
LEMMA OthersKeepClones ==
  ASSUME OneTickOnly, SettledInv, ClonesInv, NEW k \in Msgs, NEW q,
         msgs' = [msgs EXCEPT ![k] = q], tick' = tick,
         \A t \in Ticks : tick[t].pc \in InHand /\ k \in tick[t].work =>
           tick[t].pc # "due" /\ k = tick[t].cur /\ Begun(q, tick[t].snap[k])
  PROVE  ClonesCurrent' /\ ResultFits'
<1>1. ResultFits'
  BY DEF ClonesInv, ResultFits
<1>2. ASSUME NEW t \in Ticks, tick[t].pc \in InHand, NEW n \in tick[t].work
      PROVE  msgs'[n] = tick[t].snap[n] \/ (n = tick[t].cur /\ tick[t].pc # "due")
  <2>1. n \in Msgs
    BY <1>2 DEF SettledInv, TypeOK, TickLocals
  <2>2. msgs[n] = tick[t].snap[n] \/ (n = tick[t].cur /\ tick[t].pc # "due")
    BY <1>2 DEF ClonesInv, ClonesCurrent
  <2>3. QED
    BY <1>2, <2>1, <2>2 DEF SettledInv, TypeOK
<1>3. ASSUME NEW t \in Ticks, tick[t].pc \in InHand, tick[t].pc # "due"
      PROVE  Begun(msgs'[tick[t].cur], tick[t].snap[tick[t].cur])
  <2>1. tick[t].cur \in Msgs /\ tick[t].cur \in tick[t].work
    BY <1>3, AtRowType DEF SettledInv, AtRow, InHand
  <2>2. Begun(msgs[tick[t].cur], tick[t].snap[tick[t].cur])
    BY <1>3 DEF ClonesInv, ClonesCurrent
  <2>3. QED
    BY <1>3, <2>1, <2>2 DEF SettledInv, TypeOK
<1>4. \A t \in Ticks : tick[t].pc \in InHand => \A n \in tick[t].work :
        RetryDue(n, tick[t].snap[n]) /\ RowFits(n, tick[t].snap[n])
  BY DEF ClonesInv, ClonesCurrent
<1>5. QED
  BY <1>1, <1>2, <1>3, <1>4 DEF ClonesCurrent

\* The clones stay current under every step: a row in hand is neither waiting for a
\* time to pass nor written by anybody else.
LEMMA ClonesStep ==
  ASSUME OneTickOnly, SettledInv, InProgressNotScheduled, ClonesInv, [Next]_vars
  PROVE  ClonesInv'
<1> SUFFICES ClonesCurrent' /\ ResultFits'
  BY RowsFitStep DEF ClonesInv
<1> USE DEF SettledInv
<1>1. ASSUME NEW t \in Ticks, TickStep(t) PROVE ClonesCurrent' /\ ResultFits'
  BY <1>1, TickStepClones
<1>2. ASSUME NEW m \in Msgs, AdapterStep(m) PROVE FALSE
  BY <1>2 DEF OneTickOnly, AdapterStep, CallbackOn, ReceiptCallback, FailureRead, FailureWrite,
     RetryCallback, PropagationCallback, DropCallback, AttemptCallback
<1>3. ASSUME NEW m \in Msgs, Record(m) PROVE ClonesCurrent' /\ ResultFits'
  <2>1. PICK q : msgs' = [msgs EXCEPT ![m] = q]
    BY <1>3 DEF Record
  <2>2. \A t \in Ticks : tick[t].pc \in InHand => m \notin tick[t].work
    BY <1>3 DEF Record, DueRowsStayOpen, InHand
  <2>3. tick' = tick
    BY <1>3 DEF Record
  <2>4. QED
    BY <2>1, <2>2, <2>3, OthersKeepClones
<1>4. ASSUME NEW m \in Msgs, TimeStep(m) PROVE ClonesCurrent' /\ ResultFits'
  <2>1. PICK q \in {[msgs[m] EXCEPT !.due = TRUE], [msgs[m] EXCEPT !.dexp = TRUE],
                    [msgs[m] EXCEPT !.rexp = TRUE]} : msgs' = [msgs EXCEPT ![m] = q]
    BY <1>4 DEF TimeStep, BackoffElapses, DispatchDeadline, ReceiptDeadline
  <2>2. msgs[m] \in Row /\ tick' = tick
    BY <1>4 DEF TypeOK, TimeStep, BackoffElapses, DispatchDeadline, ReceiptDeadline, Passing
  <2>3. q \in Row
    BY <2>1, <2>2, FlagTypes
  <2>4. OnlyFlags(q, msgs[m])
    BY <2>1, <2>2, FlagFields
  <2>5. ASSUME NEW t \in Ticks, tick[t].pc \in InHand, m \in tick[t].work
        PROVE  tick[t].pc # "due" /\ m = tick[t].cur /\ Begun(q, tick[t].snap[m])
    <3>1. /\ RetryDue(m, tick[t].snap[m])
          /\ msgs[m] = tick[t].snap[m] \/ (m = tick[t].cur /\ tick[t].pc # "due")
      BY <2>5 DEF ClonesInv, ClonesCurrent
    <3>2. msgs[m] # tick[t].snap[m]
      <4> SUFFICES ASSUME RetryDue(m, msgs[m]) PROVE FALSE
        BY <3>1
      <4>1. msgs[m].due /\ msgs[m].status # "in_progress"
        BY <2>2 DEF InProgressNotScheduled, RetryDue, DirectTimeoutDue, FallbackRetryDue
      <4>2. ~msgs[m].pending
        BY <2>5 DEF DueRowsStayOpen, InHand
      <4>3. QED
        BY <1>4, <4>1, <4>2 DEF TimeStep, BackoffElapses, DispatchDeadline, ReceiptDeadline
    <3>3. tick[t].snap[m] \in Row
      BY DEF TypeOK, TickLocals
    <3>4. tick[t].snap[m].due
      BY <3>1, <3>3, DueIsReady
    <3>5. Begun(msgs[m], tick[t].snap[m])
      BY <2>5, <3>1, <3>2 DEF ClonesInv, ClonesCurrent
    <3>6. q.due \in BOOLEAN /\ tick[t].snap[m].due \in BOOLEAN
      BY <2>3, <3>3 DEF Row
    <3>7. Begun(q, tick[t].snap[m])
      BY <2>4, <3>4, <3>5, <3>6 DEF OnlyFlags, SameRecord, SameCount, Begun
    <3>8. QED
      BY <3>1, <3>2, <3>7
  <2>6. QED
    BY <2>1, <2>2, <2>5, OthersKeepClones
<1>5. ASSUME NEW t \in Ticks, TickOverdue(t) PROVE ClonesCurrent' /\ ResultFits'
  <2>1. /\ msgs' = msgs /\ tick'[t].pc = tick[t].pc /\ tick'[t].work = tick[t].work
        /\ tick'[t].snap = tick[t].snap /\ tick'[t].cur = tick[t].cur
        /\ tick'[t].result = tick[t].result
    BY <1>5 DEF TickOverdue, Passing, TypeOK, TickLocals
  <2>2. QED
    BY <2>1 DEF OneTickOnly, ClonesInv, ClonesCurrent, ResultFits
<1>6. CASE CrashAndRestart
  <2>1. \A t \in Ticks : tick'[t].pc = "idle"
    BY <1>6 DEF CrashAndRestart, IdleTick
  <2>2. QED
    BY <2>1 DEF ClonesCurrent, ResultFits, InHand
<1>7. CASE (\E m \in Msgs, d \in Dsts : RdProgress(m, d)) \/ UNCHANGED vars
  <2>1. msgs' = msgs /\ tick' = tick
    BY <1>7 DEF RdProgress, vars
  <2>2. ClonesCurrent'
    BY <2>1 DEF ClonesInv, ClonesCurrent
  <2>3. ResultFits'
    BY <2>1 DEF ClonesInv, ResultFits
  <2>4. QED
    BY <2>2, <2>3
<1>8. QED
  BY <1>1, <1>2, <1>3, <1>4, <1>5, <1>6, <1>7 DEF Next

\* What is said of a row holds of the absent ones.
LEMMA BlankFits ==
  ASSUME NEW m \in Msgs PROVE RowFits(m, Blank)
<1>1. /\ Blank.state = "absent" /\ Blank.status = "none" /\ ~Blank.counted
      /\ \A k \in Keys : Blank.targets[k] = "none"
  BY DEF Blank, NoTargets
<1>2. \A d \in Destinations(m, Blank) : d \in Keys
  BY DestinationsType DEF Keys
<1>3. QED
  BY <1>1, <1>2 DEF RowFits, TargetsWithin, Listed, Unanswered, SuccessTerminal

\* The clones are current in every reachable state.
LEMMA ClonesInvariant ==
  ASSUME OneTickOnly PROVE Spec => [](SettledInv /\ ClonesInv)
<1>1. Init => ClonesInv
  BY BlankFits DEF Init, ClonesInv, RowsFit, ClonesCurrent, ResultFits, InHand, IdleTick
<1>2. SettledInv /\ InProgressNotScheduled /\ ClonesInv /\ [Next]_vars => ClonesInv'
  BY ClonesStep
<1>3. QED
  BY <1>1, <1>2, SettledInvariant, NeverInProgressAndScheduled, PTL DEF Spec

-----------------------------------------------------------------------------
(* A recipient is handed over twice only if the first time got lost.       *)

\* An admission that the hub has the answer of.
Kept(m, d) == handed[m][d] > 0 /\ <<m, d>> \notin lost

\* The row has taken notice: no later dispatch of it goes to d.
LeftOut(m, r, d) == r.counted /\ (Ready(m, r) => d \notin Destinations(m, r))

\* The tick holds the answer, and has not applied it.
Answered(m, d) ==
  \E t \in Ticks : /\ tick[t].pc \in {"check", "apply"}
                   /\ tick[t].cur = m /\ d \in tick[t].result.acc

HandedInv ==
  /\ NoDuplicateWithoutLoss
  /\ \A m \in Msgs, d \in Dsts : Kept(m, d) => LeftOut(m, msgs[m], d) \/ Answered(m, d)

\* A recipient that is left out stays so: the next targets are among the last ones.
LEMMA LeftOutStays ==
  ASSUME OneTickOnly, SettledInv, ClonesInv, [Next]_vars, NEW n \in Msgs, NEW d \in Dsts,
         LeftOut(n, msgs[n], d)
  PROVE  LeftOut(n, msgs'[n], d)
<1>1. CASE Narrows(n, msgs'[n], msgs[n])
  BY <1>1 DEF Narrows, LeftOut, Destinations
<1>2. ASSUME Record(n) PROVE FALSE
  BY <1>2 DEF Record, LeftOut, ClonesInv, RowsFit, RowFits
<1>3. ASSUME NEW t \in Ticks, n = tick[t].cur, RetryRejected(t)
      PROVE  LeftOut(n, msgs'[n], d)
  <2> DEFINE c == tick[t].snap[n]
             res == tick[t].result
  <2>1. /\ (n \notin Multi => ~c.counted)
        /\ Begun(msgs[n], c) /\ AnswersFit(Destinations(n, c), res)
    BY <1>3, ApplyingFits DEF RetryRejected
  <2>2. PICK q \in Row : /\ msgs' = [msgs EXCEPT ![n] = q]
                         /\ q.only = res.again /\ q.counted = (c.counted \/ res.acc # {})
    BY <1>3, RejectedWrites DEF SettledInv
  <2>3. res.again # {}
    BY <1>3 DEF RetryRejected, RejectedMayRetry
  <2>4. msgs'[n] = q
    BY <2>2 DEF SettledInv, TypeOK
  <2> HIDE DEF c, res
  <2>5. c.counted /\ n \in Multi /\ q.counted
    BY <2>1, <2>2 DEF Begun, LeftOut
  <2>6. d \notin Destinations(n, c)
    BY <2>1 DEF Begun, LeftOut, Ready, Destinations
  <2>7. d \notin Destinations(n, q)
    BY <2>1, <2>2, <2>3, <2>5, <2>6 DEF AnswersFit, Destinations
  <2>8. QED
    BY <2>4, <2>5, <2>7 DEF LeftOut
<1>4. ASSUME NEW t \in Ticks, n = tick[t].cur, Accept(t) PROVE LeftOut(n, msgs'[n], d)
  <2>1. PICK q : /\ msgs' = [msgs EXCEPT ![n] = q]
                 /\ q.state \in {"sent", "propagating"} /\ q.counted
    BY <1>4, AcceptedWrites DEF SettledInv
  <2>2. QED
    BY <2>1 DEF SettledInv, TypeOK, LeftOut, Ready
<1>5. ASSUME NEW t \in Ticks, n = tick[t].cur, UpdateTargets(t) PROVE LeftOut(n, msgs'[n], d)
  <2>1. PICK q \in Row :
          /\ msgs' = [msgs EXCEPT ![n] = q]
          /\ \/ q = msgs[n]
             \/ /\ q.only = msgs[n].only /\ q.counted = msgs[n].counted
                /\ q.state = msgs[n].state /\ q.method = msgs[n].method
                /\ q.error = msgs[n].error
    BY <1>5, PolledWrites DEF SettledInv
  <2>2. msgs'[n] = q
    BY <2>1 DEF SettledInv, TypeOK
  <2>3. QED
    BY <2>1, <2>2 DEF LeftOut, Ready, Destinations
<1>6. QED
  BY <1>1, <1>2, <1>3, <1>4, <1>5, StepShape

\* Only a dispatch or a crash admits a recipient, and only the answer that arrives
\* is not lost.
LEMMA AdmissionsShow ==
  ASSUME OneTickOnly, SettledInv, [Next]_vars, NEW n \in Msgs, NEW d \in Dsts
  PROVE  /\ lost \subseteq lost'
         /\ \/ handed'[n][d] = handed[n][d]
            \/ <<n, d>> \in lost'
            \/ \E t \in Ticks :
                 /\ DispatchAnswered(t) /\ n = tick[t].cur /\ handed'[n][d] = Min2(handed[n][d] + 1, 2)
                 /\ d \in Destinations(n, tick[t].snap[n])
                 /\ tick'[t].pc = "check" /\ tick'[t].cur = n /\ d \in tick'[t].result.acc
<1> USE DEF SettledInv, TypeOK
<1>1. ASSUME NEW m \in Msgs, NEW S, Admit(m, S), ~(n = m /\ d \in S)
      PROVE  handed'[n][d] = handed[n][d]
  BY <1>1 DEF Admit
<1>2. ASSUME NEW t \in Ticks, DispatchAnswered(t)
      PROVE  /\ lost' = lost
             /\ \/ handed'[n][d] = handed[n][d]
                \/ /\ n = tick[t].cur /\ handed'[n][d] = Min2(handed[n][d] + 1, 2)
                   /\ d \in Destinations(n, tick[t].snap[n])
                   /\ tick'[t].pc = "check" /\ tick'[t].cur = n /\ d \in tick'[t].result.acc
  <2> DEFINE m == tick[t].cur
             D == Destinations(m, tick[t].snap[m])
  <2>1. PICK acc \in SUBSET D, again \in SUBSET D :
          /\ Admit(m, acc)
          /\ tick' = [tick EXCEPT ![t].pc = "check",
               ![t].result = [NoResult EXCEPT !.kind = "ok", !.acc = acc, !.again = again]]
    BY <1>2 DEF DispatchAnswered
  <2> DEFINE res == [NoResult EXCEPT !.kind = "ok", !.acc = acc, !.again = again]
  <2>2. res.acc = acc
    BY DEF NoResult
  <2> HIDE DEF res
  <2>3. tick'[t].pc = "check" /\ tick'[t].cur = m /\ tick'[t].result = res
    BY <2>1 DEF res, TickLocals
  <2>4. lost' = lost /\ m \in Msgs
    BY <1>2, AtRowType DEF DispatchAnswered, AtRow
  <2>5. CASE n = m /\ d \in acc
    <3>1. handed'[n][d] = Min2(handed[n][d] + 1, 2)
      BY <2>1, <2>5 DEF Admit
    <3>2. QED
      BY <2>1, <2>2, <2>3, <2>4, <2>5, <3>1
  <2>6. CASE ~(n = m /\ d \in acc)
    BY <1>1, <2>1, <2>4, <2>6
  <2>7. QED
    BY <2>5, <2>6
<1>3. ASSUME NEW t \in Ticks, DispatchErred(t)
      PROVE  lost \subseteq lost' /\ (handed'[n][d] = handed[n][d] \/ <<n, d>> \in lost')
  <2> DEFINE m == tick[t].cur
  <2>1. PICK acc : Admit(m, acc) /\ lost' = lost \cup ({m} \X acc)
    BY <1>3 DEF DispatchErred
  <2>2. m \in Msgs
    BY <1>3, AtRowType DEF DispatchErred, AtRow
  <2>3. QED
    BY <1>1, <2>1, <2>2
<1>4. CASE CrashAndRestart
  <2>1. PICK S :
          /\ handed' = [k \in Msgs |-> [e \in Dsts |->
                          IF <<k, e>> \in S THEN Min2(handed[k][e] + 1, 2) ELSE handed[k][e]]]
          /\ lost \subseteq lost' /\ S \subseteq lost'
    BY <1>4 DEF CrashAndRestart
  <2>2. QED
    BY <2>1
<1>5. ASSUME NEW t \in Ticks, CheckCurrent(t) PROVE handed' = handed /\ lost \subseteq lost'
  BY <1>5 DEF CheckCurrent
<1>6. ASSUME NEW t \in Ticks,
             TickStep(t), ~DispatchAnswered(t), ~DispatchErred(t), ~CheckCurrent(t)
      PROVE  UNCHANGED <<handed, lost>>
  BY <1>6 DEF TickStep, StartTick, SelectDue, RepairDirectTimeout, BeginAttempt, RetryFailure,
     RetryRejected, Accept, GiveUp, ScanReceipts, PollStatus, UpdateTargets, Settle, LoopEnds,
     FinalizeReceipts, truth
<1>7. ASSUME NEW m \in Msgs, Record(m) \/ TimeStep(m) PROVE UNCHANGED <<handed, lost>>
  BY <1>7 DEF Record, TimeStep, BackoffElapses, DispatchDeadline, ReceiptDeadline, Passing, truth
<1>8. ASSUME NEW m \in Msgs, AdapterStep(m) PROVE FALSE
  BY <1>8 DEF OneTickOnly, AdapterStep, CallbackOn, ReceiptCallback, FailureRead, FailureWrite,
     RetryCallback, PropagationCallback, DropCallback, AttemptCallback
<1>9. CASE \/ \E m \in Msgs, e \in Dsts : RdProgress(m, e)
           \/ \E t \in Ticks : TickOverdue(t)
           \/ UNCHANGED vars
  BY <1>9 DEF RdProgress, TickOverdue, Passing, truth, vars
<1>10. QED
  BY <1>2, <1>3, <1>4, <1>5, <1>6, <1>7, <1>8, <1>9 DEF Next

\* An answer in the hands of the tick is applied, lost or still there.
LEMMA AnswersAreApplied ==
  ASSUME OneTickOnly, SettledInv, ClonesInv, [Next]_vars, NEW n \in Msgs, NEW d \in Dsts,
         Answered(n, d)
  PROVE  LeftOut(n, msgs'[n], d) \/ Answered(n, d)' \/ <<n, d>> \in lost'
<1> USE DEF SettledInv, TypeOK
<1>1. PICK t \in Ticks : /\ tick[t].pc \in {"check", "apply"}
                         /\ tick[t].cur = n /\ d \in tick[t].result.acc
  BY DEF Answered
<1>2. ASSUME tick'[t].pc \in {"check", "apply"}, tick'[t].cur = tick[t].cur,
             tick'[t].result = tick[t].result
      PROVE  Answered(n, d)'
  BY <1>1, <1>2 DEF Answered
<1>3. CASE CheckCurrent(t)
  <2>1. CASE tick' = [tick EXCEPT ![t].pc = "apply"]
    BY <1>2, <2>1 DEF TickLocals
  <2>2. CASE tick' # [tick EXCEPT ![t].pc = "apply"]
    BY <1>1, <1>3, <2>2 DEF CheckCurrent
  <2>3. QED
    BY <2>1, <2>2
<1>4. CASE RetryRejected(t)
  <2> DEFINE c == tick[t].snap[n]
             res == tick[t].result
  <2>1. AnswersFit(Destinations(n, c), res)
    BY <1>1, <1>4, ApplyingFits DEF RetryRejected
  <2>2. PICK q \in Row : /\ msgs' = [msgs EXCEPT ![n] = q]
                         /\ q.only = res.again /\ q.counted = (c.counted \/ res.acc # {})
    BY <1>1, <1>4, RejectedWrites
  <2>3. res.again # {} /\ d \in res.acc
    BY <1>1, <1>4 DEF RetryRejected, RejectedMayRetry
  <2>4. msgs'[n] = q
    BY <2>2
  <2> HIDE DEF c, res
  <2>5. n \in Multi /\ q.counted
    BY <2>1, <2>2, <2>3, TargetedAnswer
  <2>6. d \notin Destinations(n, q)
    BY <2>1, <2>2, <2>3, <2>5 DEF AnswersFit, Destinations
  <2>7. QED
    BY <2>4, <2>5, <2>6 DEF LeftOut
<1>5. CASE Accept(t)
  <2>1. PICK q : /\ msgs' = [msgs EXCEPT ![n] = q]
                 /\ q.state \in {"sent", "propagating"} /\ q.counted
    BY <1>1, <1>5, AcceptedWrites
  <2>2. QED
    BY <2>1 DEF LeftOut, Ready
<1>6. ASSUME RetryFailure(t) \/ GiveUp(t) PROVE FALSE
  <2>1. Applying(t)
    BY <1>6 DEF RetryFailure, GiveUp
  <2>2. AnswersFit(Destinations(n, tick[t].snap[n]), tick[t].result)
    BY <1>1, <2>1, ApplyingFits
  <2>3. QED
    BY <1>1, <1>6, <2>2 DEF RetryFailure, GiveUp, AnswersFit
<1>7. ASSUME NEW u \in Ticks, TickStep(u),
             ~CheckCurrent(t), ~RetryRejected(t), ~Accept(t), ~RetryFailure(t), ~GiveUp(t)
      PROVE  FALSE
  <2>1. u = t
    BY DEF OneTickOnly
  <2>2. QED
    BY <1>1, <1>7, <2>1 DEF TickStep, StartTick, SelectDue, RepairDirectTimeout, BeginAttempt,
       DispatchAnswered, DispatchErred, ScanReceipts, PollStatus, UpdateTargets, Settle, LoopEnds,
       FinalizeReceipts
<1>8. CASE CrashAndRestart
  <2>1. UNION {{tick[u].cur} \X tick[u].result.acc : u \in {v \in Ticks : tick[v].cur # NoMsg}}
          \subseteq lost'
    BY <1>8 DEF CrashAndRestart
  <2>2. tick[t].cur # NoMsg
    BY <1>1, MessageAssumption
  <2>3. QED
    BY <1>1, <2>1, <2>2
<1>9. ASSUME NEW u \in Ticks, TickOverdue(u) PROVE Answered(n, d)'
  BY <1>1, <1>2, <1>9 DEF OneTickOnly, TickOverdue
<1>10. ASSUME NEW m \in Msgs, Record(m) \/ TimeStep(m) PROVE tick' = tick
  BY <1>10 DEF Record, TimeStep, BackoffElapses, DispatchDeadline, ReceiptDeadline
<1>11. ASSUME NEW m \in Msgs, AdapterStep(m) PROVE FALSE
  BY <1>11 DEF OneTickOnly, AdapterStep, CallbackOn, ReceiptCallback, FailureRead, FailureWrite,
     RetryCallback, PropagationCallback, DropCallback, AttemptCallback
<1>12. CASE (\E m \in Msgs, e \in Dsts : RdProgress(m, e)) \/ UNCHANGED vars
  BY <1>1, <1>2, <1>12 DEF RdProgress, vars
<1>13. QED
  BY <1>1, <1>2, <1>3, <1>4, <1>5, <1>6, <1>7, <1>8, <1>9, <1>10, <1>11, <1>12 DEF Next

\* What was handed over is left out, answered or lost after every step.
LEMMA HandedStep ==
  ASSUME OneTickOnly, SettledInv, ClonesInv, HandedInv, [Next]_vars PROVE HandedInv'
<1> SUFFICES ASSUME NEW n \in Msgs, NEW d \in Dsts
             PROVE  /\ handed'[n][d] > 1 => <<n, d>> \in lost'
                    /\ Kept(n, d)' => LeftOut(n, msgs'[n], d) \/ Answered(n, d)'
  BY DEF HandedInv, NoDuplicateWithoutLoss
<1>1. /\ handed[n][d] \in 0 .. 2 /\ lost \subseteq lost'
      /\ Kept(n, d) => LeftOut(n, msgs[n], d) \/ Answered(n, d)
      /\ handed[n][d] > 1 => <<n, d>> \in lost
  BY AdmissionsShow DEF SettledInv, TypeOK, HandedInv, NoDuplicateWithoutLoss
<1>2. CASE handed'[n][d] = handed[n][d] \/ <<n, d>> \in lost'
  <2>1. Kept(n, d)' => Kept(n, d)
    BY <1>1, <1>2 DEF Kept
  <2>2. Kept(n, d)' => LeftOut(n, msgs'[n], d) \/ Answered(n, d)'
    BY <1>1, <2>1, LeftOutStays, AnswersAreApplied DEF Kept
  <2>3. QED
    BY <1>1, <1>2, <2>2
<1>3. ASSUME NEW t \in Ticks,
             DispatchAnswered(t), n = tick[t].cur, handed'[n][d] = Min2(handed[n][d] + 1, 2),
             d \in Destinations(n, tick[t].snap[n]),
             tick'[t].pc = "check", tick'[t].cur = n, d \in tick'[t].result.acc
      PROVE  /\ handed'[n][d] > 1 => <<n, d>> \in lost'
             /\ Kept(n, d)' => LeftOut(n, msgs'[n], d) \/ Answered(n, d)'
  <2>1. Answered(n, d)'
    BY <1>3 DEF Answered
  <2>2. tick[t].pc = "wait"
    BY <1>3 DEF DispatchAnswered
  <2>3. ~Answered(n, d)
    BY <2>2 DEF OneTickOnly, Answered
  <2>4. Begun(msgs[n], tick[t].snap[n])
    BY <1>3, <2>2 DEF ClonesInv, ClonesCurrent, InHand
  <2>5. ~LeftOut(n, msgs[n], d)
    BY <1>3, <2>4 DEF LeftOut, Ready, Begun, Destinations
  <2>6. ~Kept(n, d)
    BY <1>1, <2>3, <2>5
  <2>7. handed[n][d] = 0 \/ <<n, d>> \in lost'
    BY <1>1, <2>6 DEF Kept
  <2>8. QED
    BY <1>3, <2>1, <2>7 DEF Min2
<1>4. QED
  BY <1>2, <1>3, AdmissionsShow

\* For any number of messages and recipients, with one tick at a time and no callback:
\* a recipient is handed to reticulumd a second time only if the hub never learned of
\* the first (lib.rs:15281-15478).
THEOREM DuplicatesComeOfLoss ==
  ASSUME OneTickOnly PROVE Spec => []NoDuplicateWithoutLoss
<1>1. Init => HandedInv
  BY DEF Init, HandedInv, NoDuplicateWithoutLoss, Kept
<1>2. SettledInv /\ ClonesInv /\ HandedInv /\ [Next]_vars => HandedInv'
  BY HandedStep
<1>3. HandedInv => NoDuplicateWithoutLoss
  BY DEF HandedInv
<1>4. QED
  BY <1>1, <1>2, <1>3, ClonesInvariant, PTL DEF Spec

-----------------------------------------------------------------------------
(* What the hub says has become of a message, reticulumd has said.         *)

\* The targets of row r that count as successes are those reticulumd reports.
Truthful(known, r) ==
  \A k \in Keys : SuccessTerminal(r.targets[k]) => known[k] = r.targets[k]

Polling == {"poll", "update", "verdict"}

\* reticulumd knows of recipients only.
KnowsRecipients == \A m \in Msgs, k \in Keys : rd[m][k] # "none" => k \in Recipients[m]
RowsTruthful == \A m \in Msgs : Truthful(rd[m], msgs[m])
ClonesTruthful ==
  \A t \in Ticks : tick[t].pc \in InHand \cup Polling =>
    \A n \in tick[t].work : Truthful(rd[n], tick[t].snap[n])

\* What a poll has seen of the row it is at is what reticulumd says.
SeenTruthful ==
  \A t \in Ticks :
    /\ tick[t].pc \in Polling => \A n \in tick[t].work : TargetsWithin(n, tick[t].snap[n])
    /\ tick[t].pc \in {"update", "verdict"} =>
         /\ Listed(tick[t].seen) # {}
         /\ \A k \in Keys : SuccessTerminal(tick[t].seen[k]) =>
                              rd[tick[t].cur][k] = tick[t].seen[k]

BackedInv == KnowsRecipients /\ RowsTruthful /\ ClonesTruthful /\ SeenTruthful /\ SettledIsBacked

\* A tick waits for reticulumd to admit recipient k of row n.
Admitting(n, k) ==
  \E t \in Ticks : /\ tick[t].pc = "wait" /\ tick[t].cur = n
                   /\ k \in Destinations(n, tick[t].snap[n])

\* reticulumd changes its mind on what it has not settled, or is handed k once more.
LEMMA ReportsChange ==
  ASSUME SettledInv, [Next]_vars, NEW n \in Msgs, NEW k \in Keys
  PROVE  \/ rd'[n][k] = rd[n][k]
         \/ rd[n][k] \in {"active", "unannounced"}
         \/ Admitting(n, k)
<1> USE DEF SettledInv, TypeOK
<1>1. ASSUME NEW t \in Ticks, NEW S, Admit(tick[t].cur, S), tick[t].pc = "wait",
             S \subseteq Destinations(tick[t].cur, tick[t].snap[tick[t].cur])
      PROVE  rd'[n][k] = rd[n][k] \/ Admitting(n, k)
  BY <1>1 DEF Admit, Admitting
<1>2. ASSUME NEW t \in Ticks, DispatchAnswered(t) PROVE rd'[n][k] = rd[n][k] \/ Admitting(n, k)
  BY <1>1, <1>2 DEF DispatchAnswered
<1>3. ASSUME NEW t \in Ticks, DispatchErred(t) PROVE rd'[n][k] = rd[n][k] \/ Admitting(n, k)
  BY <1>1, <1>3 DEF DispatchErred
<1>4. ASSUME NEW t \in Ticks, TickStep(t), ~DispatchAnswered(t), ~DispatchErred(t) PROVE rd' = rd
  BY <1>4 DEF TickStep, StartTick, SelectDue, RepairDirectTimeout, BeginAttempt, CheckCurrent,
     RetryFailure, RetryRejected, Accept, GiveUp, ScanReceipts, PollStatus, UpdateTargets, Settle,
     LoopEnds, FinalizeReceipts, truth
<1>5. CASE CrashAndRestart
  <2>1. PICK S \in SUBSET UNION {Handing(t) : t \in {u \in Ticks : tick[u].pc = "wait"}} :
          rd' = [m \in Msgs |-> [e \in Keys |-> IF <<m, e>> \in S THEN "active" ELSE rd[m][e]]]
    BY <1>5 DEF CrashAndRestart
  <2>2. CASE <<n, k>> \in S
    <3>1. PICK t \in Ticks : tick[t].pc = "wait" /\ <<n, k>> \in Handing(t)
      BY <2>1, <2>2
    <3>2. QED
      BY <3>1 DEF Handing, Admitting
  <2>3. CASE <<n, k>> \notin S
    BY <2>1, <2>3
  <2>4. QED
    BY <2>2, <2>3
<1>6. ASSUME NEW m \in Msgs, NEW d \in Dsts, RdProgress(m, d)
      PROVE  rd'[n][k] = rd[n][k] \/ rd[n][k] \in {"active", "unannounced"}
  BY <1>6 DEF RdProgress
<1>7. ASSUME NEW m \in Msgs, Record(m) \/ TimeStep(m) \/ AdapterStep(m) PROVE rd' = rd
  BY <1>7 DEF Record, TimeStep, BackoffElapses, DispatchDeadline, ReceiptDeadline, Passing, truth,
     AdapterStep, ReceiptCallback, FailureRead, FailureWrite, RetryCallback, PropagationCallback,
     DropCallback, AttemptCallback, Adapter
<1>8. CASE (\E t \in Ticks : TickOverdue(t)) \/ UNCHANGED vars
  BY <1>8 DEF TickOverdue, Passing, truth, vars
<1>9. QED
  BY <1>2, <1>3, <1>4, <1>5, <1>6, <1>7, <1>8 DEF Next

\* A success lasts as long as its recipient is not handed over again.
LEMMA SuccessLasts ==
  ASSUME SettledInv, [Next]_vars, NEW n \in Msgs, NEW k \in Keys, SuccessTerminal(rd[n][k]),
         ~Admitting(n, k)
  PROVE  rd'[n][k] = rd[n][k]
BY ReportsChange DEF SuccessTerminal

\* Hence what is truthful stays so, if no success in it is handed over again.
LEMMA TruthLasts ==
  ASSUME SettledInv, [Next]_vars, NEW n \in Msgs, NEW r, Truthful(rd[n], r),
         \A k \in Keys : Admitting(n, k) => ~SuccessTerminal(r.targets[k])
  PROVE  Truthful(rd'[n], r)
<1> SUFFICES ASSUME NEW k \in Keys, SuccessTerminal(r.targets[k]) PROVE rd'[n][k] = r.targets[k]
  BY DEF Truthful
<1>1. rd[n][k] = r.targets[k] /\ ~Admitting(n, k)
  BY DEF Truthful
<1>2. QED
  BY <1>1, SuccessLasts

\* The row of an attempt lists no target.
LEMMA RowTruthLasts ==
  ASSUME SettledInv, ClonesInv, BackedInv, [Next]_vars, NEW n \in Msgs
  PROVE  Truthful(rd'[n], msgs[n])
<1>1. ASSUME NEW k \in Keys, Admitting(n, k) PROVE ~SuccessTerminal(msgs[n].targets[k])
  <2>1. msgs[n].targets = NoTargets
    BY <1>1 DEF Admitting, ClonesInv, ClonesCurrent, InHand, Begun
  <2>2. QED
    BY <2>1 DEF NoTargets, SuccessTerminal
<1>2. QED
  BY <1>1, TruthLasts DEF BackedInv, RowsTruthful

\* Nor is a success of a clone among the destinations of its dispatch.
LEMMA CloneTruthLasts ==
  ASSUME OneTickOnly, SettledInv, ClonesInv, BackedInv, [Next]_vars, NEW t \in Ticks,
         tick[t].pc \in InHand \cup Polling, NEW n \in tick[t].work
  PROVE  n \in Msgs /\ Truthful(rd'[n], tick[t].snap[n])
<1>1. n \in Msgs /\ Truthful(rd[n], tick[t].snap[n])
  BY DEF SettledInv, TypeOK, TickLocals, BackedInv, ClonesTruthful
<1>2. ASSUME NEW k \in Keys, Admitting(n, k) PROVE ~SuccessTerminal(tick[t].snap[n].targets[k])
  <2>1. tick[t].pc = "wait" /\ k \in Destinations(n, tick[t].snap[n])
    BY <1>2 DEF Admitting, OneTickOnly
  <2>2. /\ RetryDue(n, tick[t].snap[n]) /\ RowFits(n, tick[t].snap[n])
        /\ tick[t].snap[n] \in Row
    BY <1>1, <2>1 DEF ClonesInv, ClonesCurrent, InHand, SettledInv, TypeOK, TickLocals
  <2>3. Unanswered(n, tick[t].snap[n], k)
    BY <2>1, <2>2, DueIsReady DEF RowFits
  <2>4. QED
    BY <2>3 DEF Unanswered, SuccessTerminal
<1>3. QED
  BY <1>1, <1>2, TruthLasts

\* What the tick is at while no dispatch is under way.
LEMMA SeenLasts ==
  ASSUME OneTickOnly, SettledInv, BackedInv, [Next]_vars, NEW t \in Ticks,
         tick[t].pc \in {"update", "verdict"}, NEW k \in Keys, SuccessTerminal(tick[t].seen[k])
  PROVE  /\ tick[t].cur \in Msgs
         /\ rd[tick[t].cur][k] = tick[t].seen[k] /\ rd'[tick[t].cur][k] = tick[t].seen[k]
<1>1. tick[t].cur \in Msgs /\ rd[tick[t].cur][k] = tick[t].seen[k]
  BY AtRowType DEF SettledInv, AtRow, BackedInv, SeenTruthful
<1>2. ~Admitting(tick[t].cur, k)
  BY DEF Admitting, OneTickOnly
<1>3. QED
  BY <1>1, <1>2, SuccessLasts

\* The clones of a tick are the rows, taken this moment, or those it had.
LEMMA ClonesTaken ==
  ASSUME OneTickOnly, SettledInv, [Next]_vars, NEW t \in Ticks,
         tick'[t].pc \in InHand \cup Polling, NEW n \in tick'[t].work
  PROVE  /\ n \in Msgs
         /\ \/ tick'[t].snap[n] = msgs[n]
            \/ /\ tick[t].pc \in InHand \cup Polling /\ n \in tick[t].work
               /\ tick'[t].snap[n] = tick[t].snap[n]
               /\ tick'[t].pc \in Polling <=> tick[t].pc \in Polling
<1> USE DEF SettledInv, TypeOK
<1> DEFINE Had == /\ tick[t].pc \in InHand \cup Polling /\ n \in tick[t].work
                  /\ tick'[t].snap[n] = tick[t].snap[n]
                  /\ tick'[t].pc \in Polling <=> tick[t].pc \in Polling
<1>1. n \in Msgs
  BY NextType DEF TickLocals
<1>2. CASE SelectDue(t)
  <2> DEFINE due == {m \in Msgs : RetryDue(m, msgs[m])}
             pc == IF due = {} THEN "scan" ELSE "due"
             snap == [m \in Msgs |-> IF m \in due THEN msgs[m] ELSE Blank]
  <2>1. tick' = [tick EXCEPT ![t] = [tick[t] EXCEPT !.pc = pc, !.work = due, !.snap = snap]]
    BY <1>2 DEF SelectDue
  <2>2. \A m \in due : snap[m] = msgs[m]
    OBVIOUS
  <2> HIDE DEF pc, due, snap
  <2>3. tick'[t].work = due /\ tick'[t].snap = snap
    BY <2>1 DEF TickLocals
  <2>4. QED
    BY <1>1, <2>2, <2>3
<1>3. CASE ScanReceipts(t)
  <2>1. PICK S \in SUBSET Msgs :
          tick' = [tick EXCEPT ![t].pc = "poll", ![t].work = S,
                    ![t].snap = [m \in Msgs |-> IF m \in S THEN msgs[m] ELSE Blank]]
    BY <1>3 DEF ScanReceipts
  <2> DEFINE snap == [m \in Msgs |-> IF m \in S THEN msgs[m] ELSE Blank]
  <2>2. \A m \in S : snap[m] = msgs[m]
    OBVIOUS
  <2> HIDE DEF snap
  <2>3. tick' = [tick EXCEPT ![t].pc = "poll", ![t].work = S, ![t].snap = snap]
    BY <2>1 DEF snap
  <2>4. tick'[t].work = S /\ tick'[t].snap = snap
    BY <2>3 DEF TickLocals
  <2>5. QED
    BY <1>1, <2>2, <2>4
<1>4. ASSUME NEW m, NEW next \in {"due", "poll"}, DoneWith(t, m, next),
             tick[t].pc \in InHand \cup Polling, next = "poll" <=> tick[t].pc \in Polling
      PROVE  Had
  <2>1. tick'[t].pc = next /\ n \in tick[t].work \ {m}
    BY <1>4, DoneWithClones
  <2>2. tick'[t].snap[n] = tick[t].snap[n]
    BY <1>1, <1>4, <2>1, DoneWithClones
  <2>3. QED
    BY <1>4, <2>1, <2>2 DEF Polling
<1>5. ASSUME tick'[t].work = tick[t].work, tick'[t].snap = tick[t].snap,
             tick[t].pc \in InHand \cup Polling, tick'[t].pc \in Polling <=> tick[t].pc \in Polling
      PROVE  Had
  BY <1>5
<1>6. CASE \/ \E m \in Msgs : RepairDirectTimeout(t, m)
           \/ RetryFailure(t) \/ RetryRejected(t) \/ Accept(t) \/ GiveUp(t)
  <2>1. PICK m : DoneWith(t, m, "due")
    BY <1>6 DEF RepairDirectTimeout, RetryFailure, RetryRejected, Accept, GiveUp
  <2>2. tick[t].pc \in InHand
    BY <1>6 DEF RepairDirectTimeout, RetryFailure, RetryRejected, Accept, GiveUp, Applying, InHand
  <2>3. QED
    BY <1>1, <1>4, <2>1, <2>2 DEF InHand, Polling
<1>7. ASSUME NEW m \in Msgs, BeginAttempt(t, m) PROVE Had
  <2>1. /\ tick'[t].pc = "wait" /\ tick'[t].work = tick[t].work
        /\ tick'[t].snap = tick[t].snap /\ tick[t].pc = "due"
    BY <1>7 DEF BeginAttempt, TickLocals
  <2>2. QED
    BY <1>5, <2>1 DEF InHand, Polling
<1>8. CASE DispatchAnswered(t) \/ DispatchErred(t)
  <2>1. tick[t].pc = "wait"
    BY <1>8 DEF DispatchAnswered, DispatchErred
  <2>2. PICK res : tick' = [tick EXCEPT ![t].pc = "check", ![t].result = res]
    BY <1>8, AnsweredFits
  <2>3. tick'[t].pc = "check" /\ tick'[t].work = tick[t].work /\ tick'[t].snap = tick[t].snap
    BY <2>2 DEF TickLocals
  <2>4. QED
    BY <1>1, <1>5, <2>1, <2>3 DEF InHand, Polling
<1>9. CASE CheckCurrent(t)
  <2>1. tick[t].pc = "check"
    BY <1>9 DEF CheckCurrent
  <2>2. CASE tick' = [tick EXCEPT ![t].pc = "apply"]
    <3>1. tick'[t].pc = "apply" /\ tick'[t].work = tick[t].work /\ tick'[t].snap = tick[t].snap
      BY <2>2 DEF TickLocals
    <3>2. QED
      BY <1>1, <1>5, <2>1, <3>1 DEF InHand, Polling
  <2>3. CASE DoneWith(t, tick[t].cur, "due")
    BY <1>1, <1>4, <2>1, <2>3 DEF InHand, Polling
  <2>4. QED
    BY <1>9, <2>2, <2>3 DEF CheckCurrent
<1>10. ASSUME NEW m \in Msgs, PollStatus(t, m) PROVE Had
  <2>1. tick[t].pc = "poll"
    BY <1>10 DEF PollStatus
  <2>2. CASE \E seen : tick' = [tick EXCEPT ![t].pc = "update", ![t].cur = m, ![t].seen = seen]
    <3>1. /\ tick'[t].pc = "update" /\ tick'[t].work = tick[t].work
          /\ tick'[t].snap = tick[t].snap
      BY <2>2 DEF TickLocals
    <3>2. QED
      BY <1>5, <2>1, <3>1 DEF Polling
  <2>3. CASE DoneWith(t, m, "poll")
    BY <1>4, <2>1, <2>3 DEF Polling
  <2>4. QED
    BY <1>10, <2>2, <2>3 DEF PollStatus
<1>11. CASE UpdateTargets(t)
  <2>1. /\ tick[t].pc = "update" /\ tick'[t].pc = "verdict"
        /\ tick'[t].work = tick[t].work /\ tick'[t].snap = tick[t].snap
    BY <1>11 DEF UpdateTargets, TickLocals
  <2>2. QED
    BY <1>1, <1>5, <2>1 DEF Polling
<1>12. CASE Settle(t)
  <2>1. tick[t].pc = "verdict" /\ DoneWith(t, tick[t].cur, "poll")
    BY <1>12 DEF Settle
  <2>2. QED
    BY <1>1, <1>4, <2>1 DEF Polling
<1>13. ASSUME StartTick(t) \/ LoopEnds(t) \/ FinalizeReceipts(t) PROVE FALSE
  <2>1. ASSUME StartTick(t) PROVE tick'[t].pc = "select"
    BY <2>1 DEF StartTick, TickLocals
  <2>2. ASSUME LoopEnds(t) \/ FinalizeReceipts(t) PROVE tick'[t].pc \in {"idle", "receipts"}
    BY <2>2 DEF LoopEnds, FinalizeReceipts, TickLocals, IdleTick
  <2>3. QED
    BY <1>13, <2>1, <2>2 DEF InHand, Polling
<1>14. ASSUME NEW u \in Ticks, TickStep(u) PROVE Had \/ tick'[t].snap[n] = msgs[n]
  <2>1. u = t
    BY DEF OneTickOnly
  <2> HIDE DEF Had
  <2>2. QED
    BY <1>2, <1>3, <1>6, <1>7, <1>8, <1>9, <1>10, <1>11, <1>12, <1>13, <1>14, <2>1
       DEF TickStep, Had
<1>15. ASSUME NEW u \in Ticks, TickOverdue(u) PROVE Had
  <2>1. /\ tick'[t].pc = tick[t].pc /\ tick'[t].work = tick[t].work
        /\ tick'[t].snap = tick[t].snap
    BY <1>15 DEF TickOverdue, TickLocals
  <2>2. QED
    BY <1>5, <2>1
<1>16. ASSUME CrashAndRestart PROVE FALSE
  BY <1>16 DEF CrashAndRestart, IdleTick, InHand, Polling
<1>17. ASSUME tick' = tick PROVE Had
  BY <1>17
<1>18. ASSUME NEW m \in Msgs, Record(m) \/ TimeStep(m) \/ AdapterStep(m) PROVE tick' = tick
  BY <1>18 DEF Record, TimeStep, BackoffElapses, DispatchDeadline, ReceiptDeadline,
     AdapterStep, ReceiptCallback, FailureRead, FailureWrite, RetryCallback, PropagationCallback,
     DropCallback, AttemptCallback, Adapter
<1>19. ASSUME (\E m \in Msgs, d \in Dsts : RdProgress(m, d)) \/ UNCHANGED vars PROVE tick' = tick
  BY <1>19 DEF RdProgress, vars
<1>20. QED
  <2> HIDE DEF Had
  <2>1. Had \/ tick'[t].snap[n] = msgs[n]
    BY <1>14, <1>15, <1>16, <1>17, <1>18, <1>19 DEF Next
  <2>2. QED
    BY <1>1, <2>1 DEF Had

\* Every row is truthful after every step: successes are copied from rows, clones and
\* reports that are.
LEMMA RowsTruthfulStep ==
  ASSUME OneTickOnly, SettledInv, ClonesInv, BackedInv, [Next]_vars PROVE RowsTruthful'
<1> SUFFICES ASSUME NEW n \in Msgs PROVE Truthful(rd'[n], msgs'[n])
  BY DEF RowsTruthful
<1>1. Truthful(rd'[n], msgs[n])
  BY RowTruthLasts
<1>2. CASE Narrows(n, msgs'[n], msgs[n])
  BY <1>1, <1>2 DEF Narrows, Truthful, SuccessTerminal
<1>3. CASE Record(n)
  <2>1. \A k \in Keys : msgs'[n].targets[k] = "none"
    BY <1>3 DEF Record, Blank, NoTargets, SettledInv, TypeOK
  <2>2. QED
    BY <2>1 DEF Truthful, SuccessTerminal
<1>4. ASSUME NEW t \in Ticks, n = tick[t].cur, RetryRejected(t) \/ Accept(t)
      PROVE  Truthful(rd'[n], msgs'[n])
  <2> DEFINE c == tick[t].snap[n]
             acc == tick[t].result.acc
             ts == StoredTargets(n, c)
  <2>1. tick[t].pc = "apply" /\ n \in tick[t].work /\ c \in Row
    BY <1>4, AtRowType DEF RetryRejected, Accept, Applying, AtRow, SettledInv
  <2>2. Truthful(rd'[n], c)
    BY <2>1, CloneTruthLasts DEF InHand
  <2>3. PICK q : msgs' = [msgs EXCEPT ![n] = q] /\ q.targets = WithAccepted(ts, acc)
    BY <1>4, RejectedWrites, AcceptedWrites DEF SettledInv
  <2>4. \A k \in Keys : SuccessTerminal(ts[k]) => ts[k] = c.targets[k]
    BY <2>1, StoredFields
  <2>5. msgs'[n] = q
    BY <2>3 DEF SettledInv, TypeOK
  <2> HIDE DEF ts, c, acc
  <2>6. \A k \in Keys : SuccessTerminal(q.targets[k]) => q.targets[k] = c.targets[k]
    BY <2>3, <2>4 DEF WithAccepted, SuccessTerminal
  <2>7. QED
    BY <2>2, <2>5, <2>6 DEF Truthful
<1>5. ASSUME NEW t \in Ticks, n = tick[t].cur, UpdateTargets(t) PROVE Truthful(rd'[n], msgs'[n])
  <2> DEFINE ts == TargetsOf(n, msgs[n])
             seen == tick[t].seen
  <2>1. PICK q : /\ msgs' = [msgs EXCEPT ![n] = q]
                 /\ \/ q = msgs[n]
                    \/ \A k \in Keys : q.targets[k] \in {ts[k], "waiting", seen[k]}
    <3>1. PICK q \in Row :
            /\ msgs' = [msgs EXCEPT ![n] = q]
            /\ \/ q = msgs[n]
               \/ \A k \in Keys : \/ q.targets[k] = ts[k]
                                  \/ ts[k] # "none" /\ q.targets[k] = "waiting"
                                  \/ ts[k] # "none" /\ q.targets[k] = seen[k]
      BY <1>5, PolledWrites DEF SettledInv
    <3> HIDE DEF ts, seen
    <3>2. QED
      BY <3>1
  <2>2. \A k \in Keys : SuccessTerminal(ts[k]) => ts[k] = msgs[n].targets[k]
    BY StoredFields DEF SettledInv, TypeOK
  <2>3. \A k \in Keys : SuccessTerminal(seen[k]) => rd'[n][k] = seen[k]
    BY <1>5, SeenLasts DEF UpdateTargets
  <2>4. msgs'[n] = q
    BY <2>1 DEF SettledInv, TypeOK
  <2> HIDE DEF ts, seen
  <2>5. QED
    BY <1>1, <2>1, <2>2, <2>3, <2>4 DEF Truthful, SuccessTerminal
<1>6. QED
  BY <1>2, <1>3, <1>4, <1>5, StepShape

\* The clones stay truthful.
LEMMA ClonesTruthfulStep ==
  ASSUME OneTickOnly, SettledInv, ClonesInv, BackedInv, [Next]_vars PROVE ClonesTruthful'
<1> SUFFICES ASSUME NEW t \in Ticks, tick'[t].pc \in InHand \cup Polling, NEW n \in tick'[t].work
             PROVE  Truthful(rd'[n], tick'[t].snap[n])
  BY DEF ClonesTruthful
<1>1. CASE tick'[t].snap[n] = msgs[n]
  BY <1>1, ClonesTaken, RowTruthLasts
<1>2. CASE /\ tick[t].pc \in InHand \cup Polling /\ n \in tick[t].work
           /\ tick'[t].snap[n] = tick[t].snap[n]
  BY <1>2, CloneTruthLasts
<1>3. QED
  BY <1>1, <1>2, ClonesTaken

\* reticulumd knows of no one else after any step.
LEMMA KnowsRecipientsStep ==
  ASSUME SettledInv, BackedInv, [Next]_vars PROVE KnowsRecipients'
<1> SUFFICES ASSUME NEW n \in Msgs, NEW k \in Keys, rd'[n][k] # "none" PROVE k \in Recipients[n]
  BY DEF KnowsRecipients
<1>1. CASE rd'[n][k] = rd[n][k] \/ rd[n][k] \in {"active", "unannounced"}
  BY <1>1 DEF BackedInv, KnowsRecipients
<1>2. CASE Admitting(n, k)
  BY <1>2 DEF Admitting, Destinations
<1>3. QED
  BY <1>1, <1>2, ReportsChange

\* A poll sees what its clone lists as settled and what reticulumd reports.
LEMMA PollSees ==
  ASSUME SettledInv, BackedInv, NEW t \in Ticks, NEW m \in Msgs, PollStatus(t, m),
         tick'[t].pc # "poll"
  PROVE  /\ tick'[t].pc = "update" /\ tick'[t].cur = m
         /\ Listed(tick'[t].seen) # {}
         /\ \A k \in Keys : SuccessTerminal(tick'[t].seen[k]) => rd'[m][k] = tick'[t].seen[k]
<1> USE DEF SettledInv, TypeOK
<1> DEFINE c == tick[t].snap[m]
           targets == TargetsOf(m, c)
           terminal == {k \in Keys : SuccessTerminal(targets[k]) \/ FailureTerminal(targets[k])}
           Saw(asked) == [k \in Keys |->
              IF k \in terminal THEN targets[k]
              ELSE IF k \in asked THEN IF rd[m][k] = "active" THEN "pending" ELSE rd[m][k]
              ELSE "none"]
<1>1. c \in Row /\ m \in tick[t].work /\ tick[t].pc = "poll" /\ rd' = rd
  BY DEF PollStatus, TickLocals, truth
<1>2. Truthful(rd[m], c)
  BY <1>1 DEF BackedInv, ClonesTruthful, Polling
<1>3. \A k \in Keys : SuccessTerminal(targets[k]) => targets[k] = c.targets[k]
  BY <1>1, StoredFields
<1>4. PICK asked : IF Listed(Saw(asked)) = {} THEN DoneWith(t, m, "poll")
                   ELSE tick' = [tick EXCEPT ![t].pc = "update", ![t].cur = m, ![t].seen = Saw(asked)]
  BY DEF PollStatus
<1>5. ~DoneWith(t, m, "poll")
  BY DoneWithLocals
<1>6. \A k \in Keys : SuccessTerminal(Saw(asked)[k]) => rd[m][k] = Saw(asked)[k]
  <2> SUFFICES ASSUME NEW k \in Keys, SuccessTerminal(Saw(asked)[k]) PROVE rd[m][k] = Saw(asked)[k]
    OBVIOUS
  <2> HIDE DEF targets
  <2>1. CASE k \in terminal
    BY <1>2, <1>3, <2>1 DEF Truthful
  <2>2. CASE k \notin terminal
    BY <2>2 DEF SuccessTerminal
  <2>3. QED
    BY <2>1, <2>2
<1> DEFINE seen == Saw(asked)
<1>7. Listed(seen) # {} /\ tick' = [tick EXCEPT ![t].pc = "update", ![t].cur = m, ![t].seen = seen]
  BY <1>4, <1>5
<1>8. \A k \in Keys : SuccessTerminal(seen[k]) => rd[m][k] = seen[k]
  BY <1>6
<1> HIDE DEF seen
<1>9. tick'[t].pc = "update" /\ tick'[t].cur = m /\ tick'[t].seen = seen
  BY <1>7 DEF TickLocals
<1>10. QED
  BY <1>1, <1>7, <1>8, <1>9

\* What polls have seen stays true: a status that reticulumd has settled is final.
LEMMA SeenTruthfulStep ==
  ASSUME OneTickOnly, SettledInv, ClonesInv, BackedInv, [Next]_vars PROVE SeenTruthful'
<1> USE DEF SettledInv, TypeOK
<1>1. ASSUME NEW t \in Ticks, tick'[t].pc \in Polling, NEW n \in tick'[t].work
      PROVE  TargetsWithin(n, tick'[t].snap[n])
  <2>1. CASE tick'[t].snap[n] = msgs[n]
    BY <1>1, <2>1, ClonesTaken DEF ClonesInv, RowsFit, RowFits
  <2>2. CASE tick[t].pc \in Polling /\ n \in tick[t].work /\ tick'[t].snap[n] = tick[t].snap[n]
    BY <2>2 DEF BackedInv, SeenTruthful
  <2>3. QED
    BY <1>1, <2>1, <2>2, ClonesTaken
<1>2. ASSUME NEW t \in Ticks, tick'[t].pc \in {"update", "verdict"}
      PROVE  /\ Listed(tick'[t].seen) # {}
             /\ \A k \in Keys : SuccessTerminal(tick'[t].seen[k]) =>
                                  rd'[tick'[t].cur][k] = tick'[t].seen[k]
  <2> DEFINE Goal == /\ Listed(tick'[t].seen) # {}
                     /\ \A k \in Keys : SuccessTerminal(tick'[t].seen[k]) =>
                                          rd'[tick'[t].cur][k] = tick'[t].seen[k]
  <2>1. ASSUME tick[t].pc \in {"update", "verdict"}, tick'[t].seen = tick[t].seen,
               tick'[t].cur = tick[t].cur
        PROVE  Goal
    <3>1. Listed(tick[t].seen) # {}
      BY <2>1 DEF BackedInv, SeenTruthful
    <3>2. QED
      BY <2>1, <3>1, SeenLasts
  <2>2. ASSUME NEW m \in Msgs, PollStatus(t, m) PROVE Goal
    BY <1>2, <2>2, PollSees
  <2>3. ASSUME UpdateTargets(t) PROVE Goal
    <3>1. tick[t].pc = "update" /\ tick'[t].seen = tick[t].seen /\ tick'[t].cur = tick[t].cur
      BY <2>3 DEF UpdateTargets, TickLocals
    <3>2. QED
      BY <2>1, <3>1
  <2>4. ASSUME NEW m, NEW next \in {"due", "poll"}, DoneWith(t, m, next) PROVE FALSE
    BY <1>2, <2>4, DoneWithLocals
  <2>5. ASSUME StartTick(t) \/ SelectDue(t) \/ (\E m \in Msgs : BeginAttempt(t, m))
               \/ ScanReceipts(t) \/ LoopEnds(t) \/ FinalizeReceipts(t)
        PROVE FALSE
    <3>1. ASSUME StartTick(t) PROVE tick'[t].pc = "select"
      BY <3>1 DEF StartTick, TickLocals
    <3>2. ASSUME SelectDue(t) PROVE tick'[t].pc \in {"scan", "due"}
      <4>1. \E due, snap :
              \/ tick' = [tick EXCEPT ![t].pc = "scan", ![t].work = due, ![t].snap = snap]
              \/ tick' = [tick EXCEPT ![t].pc = "due", ![t].work = due, ![t].snap = snap]
        BY <3>2 DEF SelectDue
      <4>2. QED
        BY <4>1 DEF TickLocals
    <3>3. ASSUME NEW m \in Msgs, BeginAttempt(t, m) PROVE tick'[t].pc = "wait"
      BY <3>3 DEF BeginAttempt, TickLocals
    <3>4. ASSUME ScanReceipts(t) PROVE tick'[t].pc = "poll"
      BY <3>4 DEF ScanReceipts, TickLocals
    <3>5. ASSUME LoopEnds(t) \/ FinalizeReceipts(t) PROVE tick'[t].pc \in {"idle", "receipts"}
      BY <3>5 DEF LoopEnds, FinalizeReceipts, TickLocals, IdleTick
    <3>6. QED
      BY <1>2, <2>5, <3>1, <3>2, <3>3, <3>4, <3>5
  <2>6. ASSUME DispatchAnswered(t) \/ DispatchErred(t) PROVE FALSE
    <3>1. PICK res : tick' = [tick EXCEPT ![t].pc = "check", ![t].result = res]
      BY <2>6, AnsweredFits
    <3>2. tick'[t].pc = "check"
      BY <3>1 DEF TickLocals
    <3>3. QED
      BY <1>2, <3>2
  <2>7. ASSUME CheckCurrent(t) PROVE FALSE
    <3>1. ASSUME tick' = [tick EXCEPT ![t].pc = "apply"] PROVE tick'[t].pc = "apply"
      BY <3>1 DEF TickLocals
    <3>2. QED
      BY <1>2, <2>4, <2>7, <3>1 DEF CheckCurrent
  <2>8. ASSUME (\E m \in Msgs : RepairDirectTimeout(t, m)) \/ RetryFailure(t)
               \/ RetryRejected(t) \/ Accept(t) \/ GiveUp(t) \/ Settle(t)
        PROVE FALSE
    BY <2>4, <2>8 DEF RepairDirectTimeout, RetryFailure, RetryRejected, Accept, GiveUp, Settle
  <2>9. ASSUME NEW u \in Ticks, TickStep(u) PROVE Goal
    <3>1. u = t
      BY DEF OneTickOnly
    <3>2. TickStep(t)
      BY <2>9, <3>1
    <3>3. \/ \E m \in Msgs : PollStatus(t, m)
          \/ UpdateTargets(t)
      BY <2>5, <2>6, <2>7, <2>8, <3>2 DEF TickStep
    <3> HIDE DEF Goal
    <3>4. QED
      BY <2>2, <2>3, <3>3
  <2>10. ASSUME NEW u \in Ticks, TickOverdue(u) PROVE Goal
    <3>1. /\ tick'[t].pc = tick[t].pc /\ tick'[t].seen = tick[t].seen
          /\ tick'[t].cur = tick[t].cur
      BY <2>10 DEF TickOverdue, TickLocals
    <3>2. QED
      BY <1>2, <2>1, <3>1
  <2>11. ASSUME CrashAndRestart PROVE FALSE
    BY <1>2, <2>11 DEF CrashAndRestart, IdleTick
  <2>12. ASSUME tick' = tick PROVE Goal
    BY <1>2, <2>1, <2>12
  <2>13. ASSUME NEW m \in Msgs, Record(m) \/ TimeStep(m) \/ AdapterStep(m) PROVE tick' = tick
    BY <2>13 DEF Record, TimeStep, BackoffElapses, DispatchDeadline, ReceiptDeadline,
       AdapterStep, ReceiptCallback, FailureRead, FailureWrite, RetryCallback, PropagationCallback,
       DropCallback, AttemptCallback, Adapter
  <2>14. ASSUME (\E m \in Msgs, d \in Dsts : RdProgress(m, d)) \/ UNCHANGED vars PROVE tick' = tick
    BY <2>14 DEF RdProgress, vars
  <2>15. Goal
    <3> HIDE DEF Goal
    <3>1. QED
      BY <2>9, <2>10, <2>11, <2>12, <2>13, <2>14 DEF Next
  <2>16. QED
    BY <2>15
<1>3. QED
  BY <1>1, <1>2 DEF SeenTruthful

\* Final: what a message is reported as when its recipients have been served.
Final == {"delivered", "propagated"}

\* Nothing but a verdict makes a message final.
LEMMA FinalBySettle ==
  ASSUME OneTickOnly, SettledInv, [Next]_vars, NEW n \in Msgs, msgs'[n].state \in Final
  PROVE  \/ msgs'[n].state = msgs[n].state
         \/ \E t \in Ticks : Settle(t) /\ n = tick[t].cur
<1> USE DEF SettledInv, TypeOK
<1>1. ASSUME NEW m, NEW q, msgs' = [msgs EXCEPT ![m] = q], q.state \notin Final
      PROVE  msgs'[n].state = msgs[n].state
  BY <1>1
<1>2. ASSUME NEW t \in Ticks, StartTick(t) PROVE msgs'[n].state = msgs[n].state
  <2> DEFINE r == msgs[n]
             q == AfterDispatchTimeout(n, r)
  <2>1. r \in Row
    OBVIOUS
  <2> HIDE DEF r, SettledInv, TypeOK
  <2>2. q.state \in {"queued", "failed"}
    BY <2>1, DispatchTimeoutFields
  <2> HIDE DEF q
  <2>3. msgs'[n] \in {r, q}
    BY <1>2 DEF StartTick, q, r
  <2>4. QED
    BY <2>2, <2>3 DEF Final, r
<1>3. ASSUME NEW t \in Ticks, NEW m \in Msgs, RepairDirectTimeout(t, m)
      PROVE  msgs'[n].state = msgs[n].state
  <2>1. ForPropagation(msgs[m]).state = "queued"
    BY ForPropagationFields
  <2>2. QED
    BY <1>1, <1>3, <2>1 DEF RepairDirectTimeout, Final
<1>4. ASSUME NEW t \in Ticks, NEW m \in Msgs, BeginAttempt(t, m)
      PROVE  msgs'[n].state = msgs[n].state
  <2>1. PICK expired : msgs' = [msgs EXCEPT ![m] = Started(msgs[m], t, expired)]
    BY <1>4 DEF BeginAttempt
  <2>2. Started(msgs[m], t, expired).state = "queued"
    BY StartedFields DEF Begun
  <2>3. QED
    BY <1>1, <2>1, <2>2 DEF Final
<1>5. ASSUME NEW t \in Ticks, RetryFailure(t) \/ RetryRejected(t) \/ Accept(t) \/ GiveUp(t)
      PROVE  msgs'[n].state = msgs[n].state
  <2> DEFINE m == tick[t].cur
             c == tick[t].snap[m]
             e == tick[t].result.err
  <2>1. msgs[m] \in Row /\ c \in Row /\ e \in Errors \cup {"none"}
    BY <1>5, AtRowOpen DEF RetryFailure, RetryRejected, Accept, GiveUp, Applying, Results
  <2>2. CASE RetryFailure(t)
    <3>1. AfterFailureRetry(msgs[m], c, e).state = "queued"
      BY <2>1, FailureRetryFields
    <3>2. QED
      BY <1>1, <2>2, <3>1 DEF RetryFailure, Final
  <2>3. CASE RetryRejected(t)
    <3>1. PICK q : msgs' = [msgs EXCEPT ![m] = q] /\ q.state = "queued"
      BY <2>3, RejectedWrites
    <3>2. QED
      BY <1>1, <3>1 DEF Final
  <2>4. CASE Accept(t)
    <3>1. PICK q : msgs' = [msgs EXCEPT ![m] = q] /\ q.state \in {"sent", "propagating"}
      BY <2>4, AcceptedWrites
    <3>2. QED
      BY <1>1, <3>1 DEF Final
  <2>5. CASE GiveUp(t)
    <3>1. PICK f : msgs' = [msgs EXCEPT ![m] = [Failed(msgs[m], f) EXCEPT !.attempts = c.attempts]]
      BY <2>5 DEF GiveUp
    <3>2. [Failed(msgs[m], f) EXCEPT !.attempts = c.attempts].state = "failed"
      BY <2>1 DEF Failed, Row
    <3>3. QED
      BY <1>1, <3>1, <3>2 DEF Final
  <2>6. QED
    BY <1>5, <2>2, <2>3, <2>4, <2>5
<1>6. ASSUME NEW t \in Ticks, UpdateTargets(t) PROVE msgs'[n].state = msgs[n].state
  <2>1. PICK q \in Row : /\ msgs' = [msgs EXCEPT ![tick[t].cur] = q]
                         /\ q.state = msgs[tick[t].cur].state
    BY <1>6, PolledWrites
  <2>2. QED
    BY <2>1
<1>7. ASSUME NEW t \in Ticks, FinalizeReceipts(t) PROVE msgs'[n].state = msgs[n].state
  <2>1. AfterReceiptTimeout(msgs[n]).state \in {msgs[n].state, "failed"}
    BY ReceiptTimeoutFields
  <2>2. QED
    BY <1>7, <2>1 DEF FinalizeReceipts, Final
<1>8. ASSUME NEW t \in Ticks, Settle(t)
      PROVE  msgs'[n].state = msgs[n].state \/ n = tick[t].cur
  BY <1>8 DEF Settle
<1>9. ASSUME NEW t \in Ticks,
             \/ SelectDue(t) \/ DispatchAnswered(t) \/ DispatchErred(t) \/ CheckCurrent(t)
             \/ ScanReceipts(t) \/ LoopEnds(t) \/ \E m \in Msgs : PollStatus(t, m)
      PROVE  msgs' = msgs
  BY <1>9 DEF SelectDue, DispatchAnswered, DispatchErred, CheckCurrent, ScanReceipts, LoopEnds,
     PollStatus
<1>10. ASSUME NEW t \in Ticks, TickStep(t)
       PROVE  msgs'[n].state = msgs[n].state \/ (Settle(t) /\ n = tick[t].cur)
  BY <1>2, <1>3, <1>4, <1>5, <1>6, <1>7, <1>8, <1>9, <1>10 DEF TickStep
<1>11. ASSUME NEW m \in Msgs, AdapterStep(m) PROVE FALSE
  BY <1>11 DEF OneTickOnly, AdapterStep, CallbackOn, ReceiptCallback, FailureRead, FailureWrite,
     RetryCallback, PropagationCallback, DropCallback, AttemptCallback
<1>12. ASSUME NEW m \in Msgs, Record(m) PROVE msgs'[n].state = msgs[n].state
  <2>1. PICK method :
          msgs' = [msgs EXCEPT ![m] = [Blank EXCEPT !.state = "queued", !.method = method,
                                         !.status = "queued", !.retry = TRUE]]
    BY <1>12 DEF Record
  <2>2. QED
    BY <2>1 DEF Blank, Final
<1>13. ASSUME NEW m \in Msgs, TimeStep(m) PROVE msgs'[n].state = msgs[n].state
  <2>1. PICK q \in {[msgs[m] EXCEPT !.due = TRUE], [msgs[m] EXCEPT !.dexp = TRUE],
                    [msgs[m] EXCEPT !.rexp = TRUE]} : msgs' = [msgs EXCEPT ![m] = q]
    BY <1>13 DEF TimeStep, BackoffElapses, DispatchDeadline, ReceiptDeadline
  <2>2. OnlyFlags(q, msgs[m])
    BY <2>1, FlagFields
  <2>3. QED
    BY <2>1, <2>2 DEF OnlyFlags
<1>14. CASE CrashAndRestart
  <2>1. Repaired(n, msgs[n]).state = msgs[n].state
    BY RepairedFields
  <2>2. QED
    BY <1>14, <2>1 DEF CrashAndRestart
<1>15. CASE \/ \E m \in Msgs, d \in Dsts : RdProgress(m, d)
            \/ \E t \in Ticks : TickOverdue(t)
            \/ UNCHANGED vars
  BY <1>15 DEF RdProgress, TickOverdue, Passing, vars
<1>16. QED
  BY <1>10, <1>11, <1>12, <1>13, <1>14, <1>15 DEF Next

\* The verdicts there are.
LEMMA VerdictIs ==
  ASSUME NEW m, NEW c, NEW seen
  PROVE  Verdict(m, c, seen) \in {"receipt", "sent", "failed", "none"}
BY DEF Verdict

\* A receipt needs every listed target delivered, a success one of them at least.
LEMMA VerdictShows ==
  ASSUME NEW m, NEW c, NEW seen, Listed(seen) # {}, Verdict(m, c, seen) \in {"receipt", "sent"}
  PROVE  /\ \E k \in Listed(seen) : SuccessTerminal(seen[k])
         /\ Verdict(m, c, seen) = "receipt" =>
              /\ Listed(seen) = Listed(TargetsOf(m, c))
              /\ \A k \in Listed(seen) : seen[k] = "delivered"
<1> DEFINE got == Listed(seen)
           complete == got = Listed(TargetsOf(m, c))
           all == \A k \in got : SuccessTerminal(seen[k])
           receipt == complete /\ \A k \in got : seen[k] = "delivered"
           some == \E k \in got : SuccessTerminal(seen[k])
           late == \E k \in got : seen[k] # "delivered"
<1>1. \/ receipt
      \/ Verdict(m, c, seen) # "receipt" /\ ((all /\ late) \/ some)
  BY DEF Verdict
<1>2. receipt => some
  BY DEF SuccessTerminal
<1>3. QED
  BY <1>1, <1>2

\* What a message is settled as is what reticulumd reports of it.
LEMMA SettleIsBacked ==
  ASSUME OneTickOnly, SettledInv, BackedInv, [Next]_vars, NEW t \in Ticks, Settle(t),
         msgs'[tick[t].cur].state # msgs[tick[t].cur].state
  PROVE  LET m == tick[t].cur
         IN  /\ msgs'[m].state = "delivered" /\ m \notin Multi =>
                  \A d \in Recipients[m] : rd'[m][d] = "delivered"
             /\ msgs'[m].state = "propagated" =>
                  \E d \in Recipients[m] : rd'[m][d] \in {"sent", "delivered"}
<1> USE DEF SettledInv, TypeOK
<1> DEFINE m == tick[t].cur
           c == tick[t].snap[m]
           r == msgs[m]
           seen == tick[t].seen
           verdict == Verdict(m, c, seen)
<1>1. /\ tick[t].pc = "verdict" /\ m \in Msgs /\ m \in tick[t].work
      /\ c \in Row /\ r \in Row
  BY AtRowType DEF Settle, AtRow
<1>2. /\ TargetsWithin(m, c) /\ Listed(seen) # {} /\ seen \in TargetLists
  BY <1>1, AtRowType DEF AtRow, BackedInv, SeenTruthful, Polling
<1>3. \A k \in Keys : SuccessTerminal(seen[k]) => rd[m][k] = seen[k] /\ rd'[m][k] = seen[k]
  BY <1>1, SeenLasts
<1>4. CASE verdict = "failed"
  <2>1. msgs'[m] \in {r, Failed(r, "other")}
    BY <1>1, <1>4 DEF Settle
  <2>2. Failed(r, "other").state = "failed"
    BY <1>1, FailedFields
  <2>3. QED
    BY <2>1, <2>2
<1>5. CASE verdict # "failed"
  <2>1. /\ verdict # "none"
        /\ \E state \in {"delivered", SuccessState(r)} :
             /\ msgs'[m] = [Acknowledged(r) EXCEPT !.state = state]
             /\ state = "delivered" => verdict = "receipt"
    BY <1>1, <1>5 DEF Settle, SuccessState
  <2>2. PICK state : /\ msgs'[m] = [Acknowledged(r) EXCEPT !.state = state]
                     /\ state = "delivered" => verdict = "receipt"
    BY <2>1
  <2>3. msgs'[m].state = state
    BY <1>1, <2>2, AcknowledgedFields
  <2>4. verdict \in {"receipt", "sent"}
    BY <1>5, <2>1, VerdictIs
  <2>5. /\ \E k \in Listed(seen) : SuccessTerminal(seen[k])
        /\ verdict = "receipt" => /\ Listed(seen) = Listed(TargetsOf(m, c))
                                  /\ \A k \in Listed(seen) : seen[k] = "delivered"
    BY <1>2, <2>4, VerdictShows
  <2>6. \E d \in Recipients[m] : rd'[m][d] \in {"sent", "delivered"}
    <3>1. PICK k \in Listed(seen) : SuccessTerminal(seen[k])
      BY <2>5
    <3>2. k \in Keys /\ rd[m][k] = seen[k] /\ rd'[m][k] = seen[k]
      BY <1>3, <3>1 DEF Listed
    <3>3. k \in Recipients[m]
      BY <1>1, <3>1, <3>2 DEF BackedInv, KnowsRecipients, SuccessTerminal
    <3>4. QED
      BY <3>1, <3>2, <3>3 DEF SuccessTerminal
  <2>7. ASSUME verdict = "receipt", m \notin Multi, NEW d \in Recipients[m]
        PROVE  rd'[m][d] = "delivered"
    <3>1. PICK k \in Listed(seen) : SuccessTerminal(seen[k])
      BY <2>5
    <3>2. \A j \in Listed(TargetsOf(m, c)) : j \in Recipients[m]
      BY <1>1, <1>2, <2>7, StoredFields
    <3>3. k \in Recipients[m] /\ k \in Keys
      BY <2>5, <2>7, <3>1, <3>2 DEF Listed
    <3>4. k = d
      BY <1>1, <2>7, <3>3, MessageAssumption
    <3>5. QED
      BY <1>3, <2>5, <2>7, <3>1, <3>3, <3>4
  <2>8. QED
    BY <2>2, <2>3, <2>6, <2>7
<1>6. QED
  BY <1>4, <1>5

\* Every step keeps what is settled backed.
LEMMA SettledIsBackedStep ==
  ASSUME OneTickOnly, SettledInv, ClonesInv, BackedInv, [Next]_vars PROVE SettledIsBacked'
<1> SUFFICES ASSUME NEW n \in Msgs
             PROVE  /\ msgs'[n].state = "delivered" /\ n \notin Multi =>
                         \A d \in Recipients[n] : rd'[n][d] = "delivered"
                    /\ msgs'[n].state = "propagated" =>
                         \E d \in Recipients[n] : rd'[n][d] \in {"sent", "delivered"}
  BY DEF SettledIsBacked
<1>1. CASE msgs'[n].state = msgs[n].state /\ msgs[n].state \in Final
  <2>1. \A k \in Keys : ~Admitting(n, k)
    BY <1>1 DEF Admitting, ClonesInv, ClonesCurrent, InHand, Begun, Final
  <2>2. ASSUME NEW d \in Recipients[n], rd[n][d] \in {"sent", "delivered"}
        PROVE  rd'[n][d] = rd[n][d]
    <3>1. d \in Keys
      BY MessageAssumption DEF Keys
    <3>2. QED
      BY <2>1, <2>2, <3>1, SuccessLasts DEF SuccessTerminal
  <2>3. QED
    BY <1>1, <2>2 DEF BackedInv, SettledIsBacked
<1>2. CASE msgs'[n].state # msgs[n].state /\ msgs'[n].state \in Final
  BY <1>2, FinalBySettle, SettleIsBacked
<1>3. QED
  BY <1>1, <1>2 DEF Final

\* For any number of messages and recipients, with one tick at a time and no callback:
\* a targeted message is reported delivered, or propagated, only if reticulumd says so
\* of its recipient, and a propagated fanout only if it says so of one of them
\* (lib.rs:11448-11533, 11976-12093).
THEOREM ReportsAreBacked ==
  ASSUME OneTickOnly PROVE Spec => []SettledIsBacked
<1>1. Init => BackedInv
  <2> SUFFICES ASSUME Init PROVE BackedInv
    OBVIOUS
  <2>1. RowsTruthful
    BY DEF Init, RowsTruthful, Truthful, Blank, NoTargets, SuccessTerminal
  <2>2. KnowsRecipients /\ ClonesTruthful /\ SeenTruthful
    BY DEF Init, KnowsRecipients, ClonesTruthful, SeenTruthful, InHand, Polling, IdleTick
  <2>3. SettledIsBacked
    BY DEF Init, SettledIsBacked, Blank
  <2>4. QED
    BY <2>1, <2>2, <2>3 DEF BackedInv
<1>2. SettledInv /\ ClonesInv /\ BackedInv /\ [Next]_vars => BackedInv'
  BY KnowsRecipientsStep, RowsTruthfulStep, ClonesTruthfulStep, SeenTruthfulStep,
     SettledIsBackedStep DEF BackedInv
<1>3. BackedInv => SettledIsBacked
  BY DEF BackedInv
<1>4. QED
  BY <1>1, <1>2, <1>3, ClonesInvariant, PTL DEF Spec

-----------------------------------------------------------------------------
(* A targeted message is dispatched as often as its budget allows.         *)

\* The counter of attempts goes up to every limit.
RoomToCount == RetryMax <= AttemptCap /\ MultiMax <= AttemptCap /\ LimitMax <= AttemptCap

\* The budget by the flag of the row.
BudgetOf(m, limited) ==
  IF limited THEN Max2(LimitMax, Max2(RetryMax, MultiMax))
  ELSE IF m \in Rem THEN Max2(RetryMax, MultiMax) ELSE RetryMax

\* Row r of targeted message m and the number of its dispatches: while it is queued
\* one more attempt fits, and all but the one in progress are counted.
Counted(m, r, n) ==
  /\ n <= BudgetOf(m, r.budget)
  /\ r.state = "absent" => n = 0
  /\ r.state = "queued" =>
       /\ n <= r.attempts + (IF r.status = "in_progress" THEN 1 ELSE 0)
       /\ r.attempts + 1 <= BudgetOf(m, r.budget)
       /\ BudgetActive(r) => r.budget

BudgetInv ==
  /\ \A m \in Msgs \ Multi : Counted(m, msgs[m], sends[m])
  /\ \A t \in Ticks : tick[t].pc \in InHand =>
       \A m \in tick[t].work \ Multi : BudgetActive(tick[t].snap[m]) => tick[t].snap[m].budget

\* A budget that has grown is larger.
LEMMA BudgetGrows ==
  ASSUME NEW m, NEW a \in BOOLEAN, NEW b \in BOOLEAN, a => b
  PROVE  /\ BudgetOf(m, a) \in Nat /\ BudgetOf(m, b) \in Nat
         /\ BudgetOf(m, a) <= BudgetOf(m, b)
BY BoundAssumption DEF BudgetOf, Max2

\* The limits of a targeted message.
LEMMA Limits ==
  ASSUME RoomToCount, NEW m \in Msgs \ Multi, NEW c, NEW limited \in BOOLEAN, NEW b \in BOOLEAN,
         limited \/ BudgetActive(c) => b
  PROVE  /\ MaxAttempts(m, c, limited) \in Nat
         /\ MaxAttempts(m, c, limited) <= BudgetOf(m, b)
         /\ MaxAttempts(m, c, limited) <= AttemptCap
<1>1. ~PartialOk(m, c) /\ ~Fallback(m, c)
  BY DEF PartialOk, Fallback
<1>2. /\ RetryMax \in Nat /\ MultiMax \in Nat /\ LimitMax \in Nat /\ AttemptCap \in Nat
  BY BoundAssumption
<1> DEFINE x == IF m \in Rem THEN Max2(RetryMax, MultiMax) ELSE RetryMax
           y == Max2(LimitMax, Max2(RetryMax, MultiMax))
<1>3. MaxAttempts(m, c, limited) = IF limited \/ BudgetActive(c) THEN Max2(x, LimitMax) ELSE x
  BY <1>1 DEF MaxAttempts
<1>4. BudgetOf(m, b) = IF b THEN y ELSE x
  BY DEF BudgetOf
<1>5. x \in Nat /\ y \in Nat /\ x <= y /\ x <= AttemptCap /\ LimitMax <= y
  BY <1>2 DEF Max2, RoomToCount
<1> HIDE DEF x, y
<1>6. Max2(x, LimitMax) \in Nat /\ Max2(x, LimitMax) <= y /\ Max2(x, LimitMax) <= AttemptCap
  BY <1>2, <1>5 DEF Max2, RoomToCount
<1>7. CASE limited \/ BudgetActive(c)
  BY <1>3, <1>4, <1>6, <1>7
<1>8. CASE ~(limited \/ BudgetActive(c))
  BY <1>2, <1>3, <1>4, <1>5, <1>8
<1>9. QED
  BY <1>7, <1>8

\* A row that leaves the queue keeps its count.
LEMMA LeavesQueueCounted ==
  ASSUME NEW m, NEW r, NEW q, NEW n, Counted(m, r, n), q.budget = r.budget,
         q.state \notin {"absent", "queued"}
  PROVE  Counted(m, q, n)
BY DEF Counted

\* So does one of which nothing that counts has changed.
LEMMA SameIsCounted ==
  ASSUME NEW m, NEW r, NEW q, NEW n, Counted(m, r, n), SameCount(q, r), q.state = r.state,
         q.status = r.status, q.error = r.error, q.reason = r.reason
  PROVE  Counted(m, q, n)
BY DEF Counted, SameCount, BudgetActive

\* An attempt that ends and is retried has been allowed one more.
LEMMA RetryIsCounted ==
  ASSUME RoomToCount, NEW m \in Msgs \ Multi, NEW r \in Row, NEW c \in Row, NEW q,
         NEW n \in Nat, NEW limited \in BOOLEAN, q.budget \in BOOLEAN,
         Counted(m, r, n), r.state = "queued", c.attempts = r.attempts,
         Allowed(m, c, limited), q.attempts = NextAttempt(c),
         q.state = "queued", q.status = "queued", BudgetActive(q) => q.budget,
         limited \/ BudgetActive(c) => q.budget, r.budget => q.budget
  PROVE  Counted(m, q, n)
<1>1. /\ c.attempts \in Nat /\ q.budget \in BOOLEAN /\ r.budget \in BOOLEAN
      /\ AttemptCap \in Nat
  BY BoundAssumption DEF Row
<1>2. /\ MaxAttempts(m, c, limited) \in Nat
      /\ MaxAttempts(m, c, limited) <= BudgetOf(m, q.budget)
      /\ MaxAttempts(m, c, limited) <= AttemptCap
  BY <1>1, Limits
<1>3. c.attempts + 1 < MaxAttempts(m, c, limited)
  BY DEF Allowed, PartialOk
<1>4. q.attempts = c.attempts + 1
  BY <1>1, <1>2, <1>3 DEF NextAttempt, Min2
<1>5. n <= c.attempts + 1
  BY <1>1 DEF Counted
<1>6. /\ BudgetOf(m, r.budget) \in Nat /\ BudgetOf(m, q.budget) \in Nat
      /\ BudgetOf(m, r.budget) <= BudgetOf(m, q.budget)
  BY <1>1, BudgetGrows
<1>7. q.attempts + 1 <= BudgetOf(m, q.budget)
  BY <1>1, <1>2, <1>3, <1>4, <1>6
<1>8. n <= BudgetOf(m, q.budget)
  BY <1>1, <1>4, <1>5, <1>6, <1>7
<1>9. QED
  BY <1>1, <1>4, <1>5, <1>7, <1>8 DEF Counted

\* A step of the tick counts what it starts, and starts only what is left of the budget.
LEMMA TickStepCounted ==
  ASSUME OneTickOnly, RoomToCount, SettledInv, InProgressNotScheduled, ClonesInv, BudgetInv,
         NEW t \in Ticks, TickStep(t), NEW n \in Msgs \ Multi
  PROVE  Counted(n, msgs'[n], sends'[n])
<1> USE DEF SettledInv, TypeOK
<1> DEFINE m == tick[t].cur
           c == tick[t].snap[m]
           e == tick[t].result.err
<1>1. msgs[n] \in Row /\ sends[n] \in Nat /\ Counted(n, msgs[n], sends[n])
  BY BoundAssumption DEF BudgetInv
<1>2. ASSUME NEW k \in Msgs, NEW q, msgs' = [msgs EXCEPT ![k] = q], sends' = sends,
             k = n => Counted(n, q, sends[n])
      PROVE  Counted(n, msgs'[n], sends'[n])
  BY <1>1, <1>2
<1>3. CASE StartTick(t)
  <2> DEFINE r == msgs[n]
             q == AfterDispatchTimeout(n, r)
  <2>1. sends' = sends
    BY <1>3 DEF StartTick
  <2>2. CASE DispatchPending(n, r) /\ r.dexp
    <3>1. r \in Row /\ r.state = "queued"
      BY <1>1, <2>2 DEF DispatchPending, ClonesInv, RowsFit, RowFits
    <3>2. BudgetActive(r) => r.budget
      BY <1>1, <3>1 DEF Counted
    <3> HIDE DEF r, SettledInv, TypeOK
    <3>3. /\ (q.state = "queued" /\ q.status = "queued") \/ q.state = "failed"
          /\ q.budget = r.budget
          /\ q.state = "queued" => /\ q.attempts = NextAttempt(r) /\ Allowed(n, r, FALSE)
                                   /\ q.error = "send_timeout" /\ q.reason = "retryable"
      BY <3>1, DispatchTimeoutFields
    <3>4. q.budget \in BOOLEAN
      BY <3>1, <3>3 DEF Row
    <3> HIDE DEF q
    <3>5. Counted(n, r, sends[n])
      BY <1>1 DEF r
    <3>6. ASSUME q.state = "failed" PROVE Counted(n, q, sends[n])
      BY <3>3, <3>5, <3>6, LeavesQueueCounted
    <3>7. ASSUME q.state = "queued" PROVE Counted(n, q, sends[n])
      <4>1. BudgetActive(q) => q.budget
        BY <3>3, <3>7 DEF BudgetActive
      <4>2. FALSE \/ BudgetActive(r) => q.budget
        BY <3>2, <3>3
      <4>3. QED
        BY <1>1, <3>1, <3>3, <3>4, <3>5, <3>7, <4>1, <4>2, RetryIsCounted
    <3>8. Counted(n, q, sends[n])
      BY <3>3, <3>6, <3>7
    <3>9. QED
      BY <1>3, <2>1, <2>2, <3>8 DEF StartTick, q, r
  <2>3. CASE ~(DispatchPending(n, r) /\ r.dexp)
    BY <1>1, <1>3, <2>1, <2>3 DEF StartTick
  <2>4. QED
    BY <2>2, <2>3
<1>4. ASSUME NEW k \in Msgs, RepairDirectTimeout(t, k) PROVE Counted(n, msgs'[n], sends'[n])
  <2>1. msgs[k] = tick[t].snap[k] /\ k \in Multi
    BY <1>4 DEF RepairDirectTimeout, ClonesInv, ClonesCurrent, InHand, DirectTimeoutDue
  <2>2. QED
    BY <1>2, <1>4, <2>1 DEF RepairDirectTimeout
<1>5. ASSUME NEW k \in Msgs, BeginAttempt(t, k) PROVE Counted(n, msgs'[n], sends'[n])
  <2>1. CASE k # n
    <3>1. msgs'[n] = msgs[n] /\ sends'[n] = sends[n]
      BY <1>5, <2>1 DEF BeginAttempt
    <3>2. QED
      BY <1>1, <3>1
  <2>2. CASE k = n
    <3>1. RetryDue(n, msgs[n])
      BY <1>5, <2>2 DEF BeginAttempt, ClonesInv, ClonesCurrent, InHand
    <3>2. /\ msgs[n].state = "queued" /\ msgs[n].status # "in_progress"
      BY <1>1, <3>1 DEF RetryDue, DirectTimeoutDue, FallbackRetryDue, Fallback, PartialOk,
         InProgressNotScheduled
    <3>3. PICK expired : msgs' = [msgs EXCEPT ![n] = Started(msgs[n], t, expired)]
      BY <1>5, <2>2 DEF BeginAttempt
    <3> DEFINE q == Started(msgs[n], t, expired)
    <3>4. Begun(q, msgs[n])
      BY <1>1, StartedFields
    <3>5. sends'[n] <= sends[n] + 1
      BY <1>1, <1>5, <2>2, BoundAssumption DEF BeginAttempt, Min2
    <3>6. sends'[n] \in Nat
      BY <1>1, <1>5, <2>2, BoundAssumption DEF BeginAttempt, Min2
    <3>7. msgs'[n] = q
      BY <3>3
    <3> HIDE DEF q
    <3>8. ~BudgetActive(q) \/ q.budget
      BY <3>4 DEF Begun, BudgetActive
    <3>9. msgs[n].attempts \in Nat /\ msgs[n].budget \in BOOLEAN
      BY <1>1, BoundAssumption DEF Row
    <3>10. /\ sends[n] <= msgs[n].attempts
           /\ msgs[n].attempts + 1 <= BudgetOf(n, msgs[n].budget)
      BY <1>1, <3>2, <3>9 DEF Counted
    <3>11. BudgetOf(n, msgs[n].budget) \in Nat
      BY <3>9, BudgetGrows
    <3>12. /\ sends'[n] <= msgs[n].attempts + 1
           /\ sends'[n] <= BudgetOf(n, msgs[n].budget)
      BY <1>1, <3>5, <3>6, <3>9, <3>10, <3>11
    <3>13. Counted(n, q, sends'[n])
      BY <3>4, <3>8, <3>10, <3>12 DEF Counted, Begun
    <3>14. QED
      BY <3>7, <3>13
  <2>3. QED
    BY <2>1, <2>2
<1>6. ASSUME Applying(t), n = m
      PROVE  /\ c \in Row /\ msgs[n].state = "queued"
             /\ c.attempts = msgs[n].attempts /\ c.budget = msgs[n].budget
             /\ BudgetActive(c) => c.budget
             /\ e \in Errors \cup {"none"}
  <2>1. c \in Row /\ Begun(msgs[m], c)
    BY <1>6, ApplyingFits
  <2>2. m \in tick[t].work /\ e \in Errors \cup {"none"}
    BY <1>6, AtRowType, AtRowOpen DEF Applying, AtRow, Results
  <2>3. BudgetActive(c) => c.budget
    BY <1>6, <2>2 DEF Applying, BudgetInv, InHand
  <2>4. QED
    BY <1>6, <2>1, <2>2, <2>3 DEF Begun
<1>7. CASE RetryFailure(t)
  <2> DEFINE q == AfterFailureRetry(msgs[n], c, e)
             limited == e = "rate_limited"
  <2>1. sends' = sends /\ Applying(t) /\ msgs' = [msgs EXCEPT ![m] = AfterFailureRetry(msgs[m], c, e)]
    BY <1>7 DEF RetryFailure
  <2>2. CASE n = m
    <3>1. MayRetryFailure(n, c, e)
      BY <1>7, <2>2 DEF RetryFailure
    <3>2. Allowed(n, c, limited)
      BY <3>1 DEF MayRetryFailure, Fallback, PartialOk
    <3>3. /\ c \in Row /\ msgs[n].state = "queued"
          /\ c.attempts = msgs[n].attempts /\ c.budget = msgs[n].budget
          /\ BudgetActive(c) => c.budget
          /\ e \in Errors \cup {"none"}
      BY <1>6, <2>1, <2>2
    <3>4. /\ q.state = "queued" /\ q.status = "queued" /\ q.attempts = NextAttempt(c)
          /\ q.error = e /\ q.reason = ReasonFor(e)
          /\ q.budget = (limited \/ BudgetActive(c))
      BY <1>1, <3>3, FailureRetryFields
    <3>5. q.budget \in BOOLEAN
      BY <3>4
    <3> HIDE DEF q, c, e
    <3>6. BudgetActive(q) => q.budget
      BY <3>4 DEF BudgetActive, ReasonFor
    <3>7. (limited \/ BudgetActive(c) => q.budget) /\ (msgs[n].budget => q.budget)
      BY <3>3, <3>4 DEF BudgetActive
    <3>8. limited \in BOOLEAN
      OBVIOUS
    <3> HIDE DEF limited
    <3>9. q.state = "queued" /\ q.status = "queued" /\ q.attempts = NextAttempt(c)
      BY <3>4
    <3>10. c \in Row /\ msgs[n].state = "queued" /\ c.attempts = msgs[n].attempts
      BY <3>3
    <3>11. Counted(n, q, sends[n])
      BY <1>1, <3>2, <3>5, <3>6, <3>7, <3>8, <3>9, <3>10, RetryIsCounted
    <3>12. QED
      BY <2>1, <2>2, <3>11 DEF q, c, e
  <2>3. CASE n # m
    BY <1>1, <2>1, <2>3
  <2>4. QED
    BY <2>2, <2>3
<1>8. CASE RetryRejected(t)
  <2>1. PICK q \in Row :
          /\ msgs' = [msgs EXCEPT ![m] = q]
          /\ q.state = "queued" /\ q.status = "queued"
          /\ q.attempts = NextAttempt(c) /\ q.budget = msgs[m].budget
          /\ q.error = "other" /\ q.reason = "other"
    BY <1>8, RejectedWrites
  <2>2. sends' = sends /\ Applying(t)
    BY <1>8 DEF RetryRejected
  <2>3. CASE n = m
    <3>1. Allowed(n, c, FALSE)
      BY <1>8, <2>3 DEF RetryRejected, RejectedMayRetry
    <3>2. /\ c \in Row /\ msgs[n].state = "queued"
          /\ c.attempts = msgs[n].attempts /\ c.budget = msgs[n].budget
          /\ BudgetActive(c) => c.budget
      BY <1>6, <2>2, <2>3
    <3> HIDE DEF c
    <3>3. (BudgetActive(q) => q.budget) /\ q.budget \in BOOLEAN
      BY <2>1 DEF BudgetActive, Row
    <3>4. (FALSE \/ BudgetActive(c) => q.budget) /\ (msgs[n].budget => q.budget)
      BY <2>1, <2>3, <3>2
    <3>5. Counted(n, q, sends[n])
      BY <1>1, <2>1, <3>1, <3>2, <3>3, <3>4, RetryIsCounted
    <3>6. QED
      BY <2>1, <2>2, <2>3, <3>5
  <2>4. CASE n # m
    BY <1>1, <2>1, <2>2, <2>4
  <2>5. QED
    BY <2>3, <2>4
<1>9. CASE Accept(t)
  <2>1. PICK q : /\ msgs' = [msgs EXCEPT ![m] = q]
                 /\ q.state \in {"sent", "propagating"} /\ q.budget = msgs[m].budget
    BY <1>9, AcceptedWrites
  <2>2. sends' = sends /\ m \in Msgs
    BY <1>9, AtRowOpen DEF Accept, Applying
  <2>3. m = n => Counted(n, q, sends[n])
    BY <1>1, <2>1, LeavesQueueCounted
  <2>4. QED
    BY <1>2, <2>1, <2>2, <2>3
<1>10. CASE GiveUp(t)
  <2>1. m \in Msgs /\ msgs[m] \in Row /\ e \in Errors \cup {"none"}
    BY <1>10, AtRowOpen DEF GiveUp, Applying, Results
  <2>2. PICK f : msgs' = [msgs EXCEPT ![m] = [Failed(msgs[m], f) EXCEPT !.attempts = c.attempts]]
    BY <1>10 DEF GiveUp
  <2> DEFINE q == [Failed(msgs[m], f) EXCEPT !.attempts = c.attempts]
  <2>3. q.state = "failed" /\ q.budget = msgs[m].budget
    BY <2>1 DEF Failed, Row
  <2>4. msgs' = [msgs EXCEPT ![m] = q] /\ sends' = sends
    BY <1>10, <2>2 DEF GiveUp
  <2> HIDE DEF q
  <2>5. m = n => Counted(n, q, sends[n])
    BY <1>1, <2>3, LeavesQueueCounted
  <2>6. QED
    BY <1>2, <2>1, <2>4, <2>5
<1>11. CASE UpdateTargets(t)
  <2>1. PICK q \in Row :
          /\ msgs' = [msgs EXCEPT ![m] = q]
          /\ \/ q = msgs[m]
             \/ /\ SameCount(q, msgs[m]) /\ q.state = msgs[m].state /\ q.status = msgs[m].status
                /\ q.error = msgs[m].error /\ q.reason = msgs[m].reason
    BY <1>11, PolledWrites
  <2>2. sends' = sends /\ m \in Msgs
    BY <1>11, AtRowType DEF UpdateTargets, AtRow
  <2>3. m = n => Counted(n, q, sends[n])
    BY <1>1, <2>1, SameIsCounted
  <2>4. QED
    BY <1>2, <2>1, <2>2, <2>3
<1>12. CASE Settle(t)
  <2>1. m \in Msgs /\ msgs[m] \in Row /\ sends' = sends
    BY <1>12, AtRowType DEF Settle, AtRow
  <2>2. PICK q : /\ msgs' = [msgs EXCEPT ![m] = q]
                 /\ \/ q = msgs[m] \/ q = Failed(msgs[m], "other")
                    \/ \E state \in {"sent", "delivered", "propagated"} :
                         q = [Acknowledged(msgs[m]) EXCEPT !.state = state]
    BY <1>12 DEF Settle, SuccessState
  <2>3. q = msgs[m] \/ (q.budget = msgs[m].budget /\ q.state \notin {"absent", "queued"})
    <3>1. LET f == Failed(msgs[m], "other") IN f.budget = msgs[m].budget /\ f.state = "failed"
      BY <2>1, FailedFields DEF SameCount
    <3>2. ASSUME NEW state \in {"sent", "delivered", "propagated"}
          PROVE  LET a == [Acknowledged(msgs[m]) EXCEPT !.state = state]
                 IN  a.budget = msgs[m].budget /\ a.state = state
      <4> DEFINE r == msgs[m]
                 a == [Acknowledged(r) EXCEPT !.state = state]
      <4>1. SameCount(a, r) /\ a.state = state
        BY <2>1, AcknowledgedFields
      <4> HIDE DEF a
      <4>2. a.budget = r.budget /\ a.state = state
        BY <4>1 DEF SameCount
      <4>3. QED
        BY <4>2 DEF a
    <3>3. QED
      BY <2>2, <3>1, <3>2
  <2>4. m = n => Counted(n, q, sends[n])
    BY <1>1, <2>3, LeavesQueueCounted
  <2>5. QED
    BY <1>2, <2>1, <2>2, <2>4
<1>13. CASE FinalizeReceipts(t)
  <2> DEFINE q == AfterReceiptTimeout(msgs[n])
  <2>1. sends' = sends
    BY <1>13 DEF FinalizeReceipts
  <2>2. q.budget = msgs[n].budget /\ q.state \in {msgs[n].state, "failed"}
    BY <1>1, ReceiptTimeoutFields
  <2> HIDE DEF q
  <2>3. CASE msgs[n].pending /\ msgs[n].rexp
    <3>1. msgs[n].state \in {"sent", "propagating"}
      BY <2>3 DEF AwaitedReceiptIsPollable
    <3>2. Counted(n, q, sends[n])
      BY <1>1, <2>2, <3>1, LeavesQueueCounted
    <3>3. QED
      BY <1>13, <2>1, <2>3, <3>2 DEF FinalizeReceipts, q
  <2>4. CASE ~(msgs[n].pending /\ msgs[n].rexp)
    BY <1>1, <1>13, <2>1, <2>4 DEF FinalizeReceipts
  <2>5. QED
    BY <2>3, <2>4
<1>14. CASE \/ SelectDue(t) \/ DispatchAnswered(t) \/ DispatchErred(t) \/ CheckCurrent(t)
            \/ ScanReceipts(t) \/ LoopEnds(t) \/ \E k \in Msgs : PollStatus(t, k)
  <2>1. msgs' = msgs /\ sends' = sends
    BY <1>14 DEF SelectDue, DispatchAnswered, DispatchErred, CheckCurrent, ScanReceipts,
       LoopEnds, PollStatus
  <2>2. QED
    BY <1>1, <2>1
<1>15. QED
  BY <1>3, <1>4, <1>5, <1>7, <1>8, <1>9, <1>10, <1>11, <1>12, <1>13, <1>14 DEF TickStep

\* Every step of the system keeps the count.
LEMMA BudgetStep ==
  ASSUME OneTickOnly, RoomToCount, SettledInv, InProgressNotScheduled, ClonesInv, BudgetInv,
         [Next]_vars
  PROVE  BudgetInv'
<1> USE DEF SettledInv, TypeOK
<1>1. ASSUME NEW n \in Msgs \ Multi PROVE Counted(n, msgs'[n], sends'[n])
  <2>1. msgs[n] \in Row /\ sends[n] \in Nat /\ Counted(n, msgs[n], sends[n])
    BY BoundAssumption DEF BudgetInv
  <2>2. ASSUME NEW t \in Ticks, TickStep(t) PROVE Counted(n, msgs'[n], sends'[n])
    BY <2>2, TickStepCounted
  <2>3. ASSUME NEW m \in Msgs, AdapterStep(m) PROVE FALSE
    BY <2>3 DEF OneTickOnly, AdapterStep, CallbackOn, ReceiptCallback, FailureRead, FailureWrite,
       RetryCallback, PropagationCallback, DropCallback, AttemptCallback
  <2>4. ASSUME NEW m \in Msgs, Record(m) PROVE Counted(n, msgs'[n], sends'[n])
    <3>1. PICK method :
            msgs' = [msgs EXCEPT ![m] = [Blank EXCEPT !.state = "queued", !.method = method,
                                           !.status = "queued", !.retry = TRUE]]
      BY <2>4 DEF Record
    <3> DEFINE q == [Blank EXCEPT !.state = "queued", !.method = method,
                                  !.status = "queued", !.retry = TRUE]
    <3>2. /\ q.state = "queued" /\ q.attempts = 0 /\ ~q.budget /\ q.budget \in BOOLEAN
          /\ q.error = "none" /\ q.reason = "none"
      BY DEF Blank
    <3>3. sends' = sends /\ msgs[m].state = "absent" /\ msgs' = [msgs EXCEPT ![m] = q]
      BY <2>4, <3>1 DEF Record
    <3> HIDE DEF q
    <3>4. 1 <= BudgetOf(n, q.budget) /\ BudgetOf(n, q.budget) \in Nat
      BY <3>2, BoundAssumption DEF BudgetOf, Max2
    <3>5. CASE m = n
      <4>1. sends[n] = 0
        BY <2>1, <3>3, <3>5 DEF Counted
      <4>2. Counted(n, q, 0)
        BY <3>2, <3>4 DEF Counted, BudgetActive
      <4>3. QED
        BY <3>3, <3>5, <4>1, <4>2
    <3>6. CASE m # n
      BY <2>1, <3>3, <3>6
    <3>7. QED
      BY <3>5, <3>6
  <2>5. ASSUME NEW m \in Msgs, TimeStep(m) PROVE Counted(n, msgs'[n], sends'[n])
    <3>1. PICK q \in {[msgs[m] EXCEPT !.due = TRUE], [msgs[m] EXCEPT !.dexp = TRUE],
                      [msgs[m] EXCEPT !.rexp = TRUE]} : msgs' = [msgs EXCEPT ![m] = q]
      BY <2>5 DEF TimeStep, BackoffElapses, DispatchDeadline, ReceiptDeadline
    <3>2. OnlyFlags(q, msgs[m])
      BY <3>1, FlagFields
    <3>3. sends' = sends
      BY <2>5 DEF TimeStep, BackoffElapses, DispatchDeadline, ReceiptDeadline, Passing
    <3>4. m = n => Counted(n, q, sends[n])
      BY <2>1, <3>2, SameIsCounted DEF OnlyFlags
    <3>5. QED
      BY <2>1, <3>1, <3>3, <3>4
  <2>6. CASE CrashAndRestart
    <3> DEFINE q == Repaired(n, msgs[n])
    <3>1. msgs'[n] = q /\ sends' = sends
      BY <2>6 DEF CrashAndRestart
    <3>2. /\ q.state = msgs[n].state /\ SameCount(q, msgs[n])
          /\ q = msgs[n] \/ q.state \in {"sent", "delivered", "propagating", "propagated"}
      BY <2>1, RepairedFields
    <3> HIDE DEF q
    <3>3. CASE q = msgs[n]
      BY <2>1, <3>1, <3>3
    <3>4. CASE q # msgs[n]
      BY <2>1, <3>1, <3>2, <3>4, LeavesQueueCounted DEF SameCount
    <3>5. QED
      BY <3>3, <3>4
  <2>7. CASE \/ \E m \in Msgs, d \in Dsts : RdProgress(m, d)
             \/ \E t \in Ticks : TickOverdue(t)
             \/ UNCHANGED vars
    <3>1. msgs' = msgs /\ sends' = sends
      BY <2>7 DEF RdProgress, TickOverdue, Passing, vars
    <3>2. QED
      BY <2>1, <3>1
  <2>8. QED
    BY <2>2, <2>3, <2>4, <2>5, <2>6, <2>7 DEF Next
<1>2. ASSUME NEW t \in Ticks, tick'[t].pc \in InHand, NEW m \in tick'[t].work \ Multi,
             BudgetActive(tick'[t].snap[m])
      PROVE  tick'[t].snap[m].budget
  <2>1. m \in Msgs /\ tick'[t].snap[m] \in Row
    BY <1>2, NextType DEF TickLocals
  <2>2. RetryDue(m, tick'[t].snap[m])
    BY <1>2, ClonesStep DEF ClonesInv, ClonesCurrent
  <2>3. tick'[t].snap[m].state = "queued"
    BY <1>2, <2>1, <2>2, DueIsReady
  <2>4. CASE tick'[t].snap[m] = msgs[m]
    BY <1>2, <2>1, <2>3, <2>4 DEF BudgetInv, Counted
  <2>5. CASE tick[t].pc \in InHand /\ m \in tick[t].work /\ tick'[t].snap[m] = tick[t].snap[m]
    BY <1>2, <2>5 DEF BudgetInv
  <2>6. QED
    BY <1>2, <2>4, <2>5, ClonesTaken DEF InHand, Polling
<1>3. QED
  BY <1>1, <1>2 DEF BudgetInv

\* For any number of messages, and any limits that the counter of attempts can reach,
\* with one tick at a time and no callback: a targeted message is dispatched no more
\* often than the attempts of its kind, or those of the rate limit once it has been
\* limited (lib.rs:15807-15877).
THEOREM RetriesWithinBudget ==
  ASSUME OneTickOnly, RoomToCount PROVE Spec => []RetryBudget
<1>1. Init => BudgetInv
  <2> SUFFICES ASSUME Init PROVE BudgetInv
    OBVIOUS
  <2>1. ASSUME NEW m \in Msgs \ Multi PROVE Counted(m, msgs[m], sends[m])
    <3>1. msgs[m] = Blank /\ sends[m] = 0
      BY DEF Init
    <3>2. Blank.state = "absent" /\ Blank.budget \in BOOLEAN
      BY DEF Blank
    <3>3. 0 <= BudgetOf(m, Blank.budget)
      BY <3>2, BudgetGrows
    <3>4. QED
      BY <3>1, <3>2, <3>3 DEF Counted
  <2>2. QED
    BY <2>1 DEF Init, BudgetInv, IdleTick, InHand
<1>2. SettledInv /\ InProgressNotScheduled /\ ClonesInv /\ BudgetInv /\ [Next]_vars => BudgetInv'
  BY BudgetStep
<1>3. BudgetInv => RetryBudget
  BY DEF BudgetInv, Counted, BudgetOf, RetryBudget, DispatchBudget
<1>4. QED
  BY <1>1, <1>2, <1>3, ClonesInvariant, NeverInProgressAndScheduled, PTL DEF Spec
=============================================================================
