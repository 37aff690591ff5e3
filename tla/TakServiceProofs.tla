--------------------------- MODULE TakServiceProofs ---------------------------
(***************************************************************************)
(* Theorems about TakService for every number of callers and messages and  *)
(* every capacity: type correctness, that at most one ping or keepalive    *)
(* waits in the queue, that a backlog shows in the status, and that the    *)
(* service keeps the safety part of TakPromise.                            *)
(*                                                                         *)
(* The inductive invariant: the worker sends its probes on an empty queue  *)
(* only (ProbesOnEmpty), a probe in the queue is its first payload         *)
(* (ProbesFirst), and nobody leaves the mutex with a backlog and no error  *)
(* (BacklogIsReported).                                                    *)
(***************************************************************************)
EXTENDS TakService, FiniteSetTheorems, TLAPS

ProbesOnEmpty == worker = "probe" => queue = << >>

ProbesFirst == \A i \in DOMAIN queue : queue[i] \in Probes => i = 1

IInv == TypeOK /\ ProbesOnEmpty /\ ProbesFirst /\ BacklogIsReported

LEMMA GoesOutIsList ==
  ASSUME arrived \in Seq(Messages), NEW p \in Messages \cup Probes, GoesOut(p)
  PROVE  arrived' \in Seq(Messages)
BY DEF GoesOut

LEMMA IInvInit == Init => IInv
<1> SUFFICES ASSUME Init PROVE IInv
  OBVIOUS
<1>1. /\ queue = << >> /\ queue \in Seq(Messages \cup Probes) /\ Len(queue) = 0
      /\ arrived \in Seq(Messages) /\ holder = "free" /\ worker = "sleep"
  BY DEF Init
<1>2. holder \notin {"worker"} /\ 0 \in 0 .. Pauses
  BY <1>1, TakServiceAssumption
<1>3. TypeOK
  <2>1. (holder = "worker") = (worker \in {"drain", "probe"})
    BY <1>1
  <2>2. Len(queue) <= Capacity /\ pauses \in 0 .. Pauses
    BY <1>1, <1>2, TakServiceAssumption DEF Init
  <2>3. holder \in Callers \cup {"worker", "free"}
    BY <1>1
  <2>4. worker \in {"sleep", "drain", "probe", "ended"} /\ shut \in {"no", "join", "done"}
    BY DEF Init
  <2>5. /\ running \in BOOLEAN /\ failed \in BOOLEAN /\ stop \in BOOLEAN
        /\ due \subseteq Probes /\ todo \subseteq Messages
    BY DEF Init
  <2>6. QED
    BY <1>1, <2>1, <2>2, <2>3, <2>4, <2>5 DEF TypeOK
<1>4. ProbesFirst
  BY <1>1 DEF ProbesFirst
<1>5. QED
  BY <1>1, <1>3, <1>4 DEF IInv, ProbesOnEmpty, BacklogIsReported

LEMMA PushKeeps ==
  ASSUME TypeOK, ProbesFirst, NEW p \in Messages \cup Probes, Pushed(p),
         p \in Probes => queue = << >>
  PROVE  /\ queue' \in Seq(Messages \cup Probes) /\ Len(queue') <= Capacity
         /\ ProbesFirst' /\ failed' \in BOOLEAN
<1> USE TakServiceAssumption DEF TypeOK
<1>1. CASE ~(Len(queue) < Capacity)
  <2>1. UNCHANGED queue /\ failed' = TRUE
    BY <1>1 DEF Pushed
  <2>2. ProbesFirst'
    BY <2>1 DEF ProbesFirst
  <2>3. QED
    BY <2>1, <2>2
<1>2. CASE Len(queue) < Capacity
  <2>1. queue' = Append(queue, p) /\ UNCHANGED failed
    BY <1>2 DEF Pushed
  <2>2. /\ queue' \in Seq(Messages \cup Probes) /\ Len(queue') = Len(queue) + 1
        /\ \A i \in 1 .. Len(queue) : queue'[i] = queue[i]
        /\ queue'[Len(queue) + 1] = p
    BY <2>1
  <2>3. p \notin Probes \/ Len(queue) = 0
    OBVIOUS
  <2>4. ProbesFirst'
    BY <2>2, <2>3 DEF ProbesFirst
  <2>5. QED
    BY <1>2, <2>1, <2>2, <2>4
<1>3. QED
  BY <1>1, <1>2

LEMMA IInvStep == IInv /\ [Next]_vars => IInv'
<1> SUFFICES ASSUME IInv, [Next]_vars PROVE IInv'
  OBVIOUS
<1> USE TakServiceAssumption DEF IInv, TypeOK, ProbesOnEmpty, BacklogIsReported
<1>1. CASE SendSucceeds
  <2>1. queue # << >> /\ queue' = Tail(queue) /\ GoesOut(Head(queue))
    BY <1>1 DEF SendSucceeds, Draining
  <2>2. arrived' \in Seq(Messages)
    BY <2>1, GoesOutIsList
  <2>3. /\ queue' \in Seq(Messages \cup Probes) /\ Len(queue') = Len(queue) - 1
        /\ \A i \in 1 .. Len(queue') : queue'[i] = queue[i + 1]
    BY <2>1
  <2>4. ProbesFirst'
    <3>1. DOMAIN queue = 1 .. Len(queue) /\ DOMAIN queue' = 1 .. Len(queue')
          /\ Len(queue) \in Nat
      BY <2>3
    <3>2. SUFFICES ASSUME NEW i \in 1 .. Len(queue'), queue'[i] \in Probes
                   PROVE  i = 1
      BY <3>1 DEF ProbesFirst
    <3>3. i + 1 \in DOMAIN queue /\ queue[i + 1] \in Probes /\ i \in 1 .. Len(queue)
      BY <2>3, <3>1, <3>2
    <3>4. i + 1 = 1
      BY <3>3 DEF ProbesFirst
    <3>5. QED
      BY <3>3, <3>4
  <2>5. worker # "probe" /\ holder # "free"
    <3>1. worker = "drain" => holder = "worker"
      OBVIOUS
    <3>2. QED
      BY <1>1, <3>1 DEF SendSucceeds, Draining
  <2>6. TypeOK'
    BY <1>1, <2>2, <2>3 DEF SendSucceeds
  <2>7. QED
    BY <1>1, <2>4, <2>5, <2>6 DEF SendSucceeds
<1>2. CASE SendFails
  <2>1. queue # << >> /\ (GoesOut(Head(queue)) \/ UNCHANGED arrived)
    BY <1>2 DEF SendFails, Draining
  <2>2. arrived' \in Seq(Messages)
    BY <2>1, GoesOutIsList
  <2>3. QED
    BY <1>2, <2>2 DEF SendFails, Draining, ProbesFirst
<1>3. ASSUME NEW c \in Callers, Flush(c) PROVE IInv'
  BY <1>3 DEF Flush, ProbesFirst
<1>4. ASSUME NEW c \in Callers, NEW m \in Messages, Enqueue(c, m) PROVE IInv'
  <2>1. CASE ~running
    BY <1>4, <2>1 DEF Enqueue, ProbesFirst
  <2>2. CASE running
    <3>1. Pushed(m) /\ holder' = IF queue' = queue THEN "free" ELSE c
      BY <1>4, <2>2 DEF Enqueue
    <3>2. m \notin Probes
      BY DEF Probes
    <3>3. /\ queue' \in Seq(Messages \cup Probes) /\ Len(queue') <= Capacity
          /\ ProbesFirst' /\ failed' \in BOOLEAN
      BY <3>1, <3>2, PushKeeps
    <3>4. holder' = "free" => failed'
      <4>1. CASE Len(queue) < Capacity
        <5>1. queue' = Append(queue, m)
          BY <3>1, <4>1 DEF Pushed
        <5>2. Len(queue') # Len(queue)
          BY <5>1
        <5>3. QED
          BY <3>1, <5>2
      <4>2. CASE ~(Len(queue) < Capacity)
        BY <3>1, <4>2 DEF Pushed
      <4>3. QED
        BY <4>1, <4>2
    <3>5. QED
      BY <1>4, <3>1, <3>3, <3>4 DEF Enqueue
  <2>3. QED
    BY <2>1, <2>2
<1>5. CASE Flushed
  BY <1>5 DEF Flushed, ProbesFirst
<1>6. CASE Pause
  BY <1>6 DEF Pause, ProbesFirst
<1>7. CASE Wake
  BY <1>7 DEF Wake, ProbesFirst
<1>8. CASE Drained
  BY <1>8 DEF Drained, ProbesFirst
<1>9. CASE Probe
  <2>1. CASE due = {}
    BY <1>9, <2>1 DEF Probe, ProbesFirst
  <2>2. ASSUME NEW p \in due, Pushed(p), due' = due \ {p},
               IF queue' = queue
               THEN worker' = "sleep" /\ holder' = "free"
               ELSE worker' = "drain" /\ UNCHANGED holder
        PROVE  IInv'
    <3>1. queue = << >> /\ p \in Probes
      BY <1>9 DEF Probe
    <3>2. queue' = Append(queue, p)
      BY <2>2, <3>1 DEF Pushed
    <3>3. queue' # queue
      BY <3>1, <3>2
    <3>4. /\ queue' \in Seq(Messages \cup Probes) /\ Len(queue') <= Capacity
          /\ ProbesFirst' /\ failed' \in BOOLEAN
      BY <2>2, <3>1, PushKeeps
    <3>5. QED
      BY <1>9, <2>2, <3>3, <3>4 DEF Probe
  <2>3. QED
    BY <1>9, <2>1, <2>2 DEF Probe
<1>10. CASE WorkerEnds
  BY <1>10 DEF WorkerEnds, ProbesFirst
<1>11. ASSUME NEW p \in Probes, BecomeDue(p) PROVE IInv'
  BY <1>11 DEF BecomeDue, ProbesFirst
<1>12. CASE RaiseStop
  BY <1>12 DEF RaiseStop, ProbesFirst
<1>13. CASE Join
  BY <1>13 DEF Join, ProbesFirst
<1>14. CASE UNCHANGED vars
  BY <1>14 DEF vars, ProbesFirst
<1>15. QED
  BY <1>1, <1>2, <1>3, <1>4, <1>5, <1>6, <1>7, <1>8, <1>9, <1>10, <1>11, <1>12,
     <1>13, <1>14
  DEF Next, Worker

THEOREM Inductive == Spec => []IInv
BY IInvInit, IInvStep, PTL DEF Spec

\* Type correctness: the queue stays within its capacity and the mutex has one
\* holder (TakOutboundQueue::push, TakServiceWorker).
THEOREM TypeCorrect == Spec => []TypeOK
<1>1. IInv => TypeOK
  BY DEF IInv
<1>2. QED
  BY <1>1, Inductive, PTL

\* At most one ping or keepalive waits in the queue, whatever the capacity and
\* however long sends fail (TakServiceWorker).
THEOREM OneProbeWaits == Spec => []AtMostOneProbe
<1>1. ASSUME IInv PROVE AtMostOneProbe
  <2> DEFINE places == {i \in DOMAIN queue : queue[i] \in Probes}
  <2>1. \A i, j \in places : i = j
    BY <1>1 DEF IInv, ProbesFirst
  <2>2. CASE places = {}
    BY <2>2, FS_EmptySet DEF AtMostOneProbe
  <2>3. CASE places # {}
    <3>1. PICK i \in places : TRUE
      BY <2>3
    <3>2. places = {i}
      BY <2>1, <3>1
    <3>3. Cardinality(places) = 1
      BY <3>2, FS_Singleton
    <3>4. QED
      BY <3>3 DEF AtMostOneProbe
  <2>4. QED
    BY <2>2, <2>3
<1>2. QED
  BY <1>1, Inductive, PTL

\* A status read outside of a call shows an error as long as a payload waits
\* (flush_after_enqueue).
THEOREM BacklogShows == Spec => []BacklogIsReported
<1>1. IInv => BacklogIsReported
  BY DEF IInv
<1>2. QED
  BY <1>1, Inductive, PTL

-----------------------------------------------------------------------------
(* The refinement of TakPromise.                                           *)

\* A message that no caller has enqueued yet is nowhere.
Untouched ==
  \A m \in todo : (\A i \in DOMAIN queue : queue[i] # m) /\ ~Contains(arrived, m)

LEMMA SendTouches ==
  ASSUME TypeOK, Untouched, queue # << >>, GoesOut(Head(queue)) \/ UNCHANGED arrived,
         UNCHANGED todo, queue' \in {queue, Tail(queue)}
  PROVE  Untouched'
<1>1. /\ queue \in Seq(Messages \cup Probes) /\ arrived \in Seq(Messages) /\ todo \subseteq Messages
      /\ 1 \in DOMAIN queue /\ Head(queue) = queue[1] /\ Head(queue) \in Messages \cup Probes
  BY DEF TypeOK
<1>2. ASSUME NEW m \in todo PROVE \A i \in DOMAIN queue' : queue'[i] # m
  <2>1. \A i \in DOMAIN queue : queue[i] # m
    BY <1>2 DEF Untouched
  <2>2. CASE queue' = Tail(queue)
    <3>1. \A i \in DOMAIN queue' : queue'[i] = queue[i + 1] /\ i + 1 \in DOMAIN queue
      BY <1>1, <2>2
    <3>2. QED
      BY <2>1, <3>1
  <2>3. QED
    BY <2>1, <2>2
<1>3. ASSUME NEW m \in todo PROVE ~Contains(arrived', m)
  <2>1. ~Contains(arrived, m) /\ Head(queue) # m
    BY <1>1, <1>3 DEF Untouched
  <2>2. CASE arrived' = Append(arrived, Head(queue)) /\ Head(queue) \in Messages
    <3>1. /\ Len(arrived') = Len(arrived) + 1 /\ Len(arrived) \in Nat
          /\ \A i \in 1 .. Len(arrived) : arrived'[i] = arrived[i]
          /\ arrived'[Len(arrived) + 1] = Head(queue)
      BY <1>1, <2>2
    <3>2. \A i \in 1 .. Len(arrived') : i \in 1 .. Len(arrived) \/ i = Len(arrived) + 1
      BY <3>1
    <3>3. QED
      BY <2>1, <3>1, <3>2 DEF Contains
  <2>3. CASE arrived' = arrived
    BY <2>1, <2>3
  <2>4. QED
    BY <1>1, <2>2, <2>3 DEF GoesOut
<1>4. QED
  BY <1>2, <1>3 DEF Untouched

LEMMA PushTouches ==
  ASSUME TypeOK, Untouched, NEW p \in Messages \cup Probes, Pushed(p),
         todo' \subseteq todo \ {p}, UNCHANGED arrived
  PROVE  Untouched'
<1>1. queue \in Seq(Messages \cup Probes)
  BY DEF TypeOK
<1>2. CASE UNCHANGED queue
  BY <1>2 DEF Untouched
<1>3. CASE queue' = Append(queue, p)
  <2>1. \A i \in DOMAIN queue' : (i \in DOMAIN queue /\ queue'[i] = queue[i]) \/ queue'[i] = p
    BY <1>1, <1>3
  <2>2. QED
    BY <2>1 DEF Untouched
<1>4. QED
  BY <1>2, <1>3 DEF Pushed

LEMMA UntouchedStep == ASSUME IInv, Untouched, [Next]_vars PROVE Untouched'
<1>1. TypeOK
  BY DEF IInv
<1>2. CASE UNCHANGED <<queue, todo, arrived>>
  BY <1>2 DEF Untouched
<1>3. CASE SendSucceeds
  BY <1>1, <1>3, SendTouches DEF SendSucceeds, Draining
<1>4. CASE SendFails
  BY <1>1, <1>4, SendTouches DEF SendFails, Draining
<1>5. ASSUME NEW c \in Callers, NEW m \in Messages, Enqueue(c, m) PROVE Untouched'
  <2>1. todo' = todo \ {m} /\ UNCHANGED arrived
    BY <1>5 DEF Enqueue
  <2>2. CASE UNCHANGED queue
    BY <2>1, <2>2 DEF Untouched
  <2>3. CASE Pushed(m)
    BY <1>1, <2>1, <2>3, PushTouches
  <2>4. QED
    BY <1>5, <2>2, <2>3 DEF Enqueue
<1>6. CASE Probe
  <2>1. UNCHANGED <<todo, arrived>>
    BY <1>6 DEF Probe
  <2>2. CASE UNCHANGED queue
    BY <1>2, <2>1, <2>2
  <2>3. ASSUME NEW p \in due, Pushed(p) PROVE Untouched'
    <3>1. p \in Messages \cup Probes /\ p \notin todo
      BY <1>1, TakServiceAssumption DEF TypeOK, Probes
    <3>2. QED
      BY <1>1, <2>1, <2>3, <3>1, PushTouches
  <2>4. QED
    BY <1>6, <2>2, <2>3 DEF Probe
<1>7. ASSUME NEW c \in Callers, Flush(c) PROVE Untouched'
  BY <1>2, <1>7 DEF Flush
<1>8. CASE Flushed \/ Pause \/ Wake \/ Drained \/ WorkerEnds \/ RaiseStop \/ Join
  BY <1>2, <1>8 DEF Flushed, Pause, Wake, Drained, WorkerEnds, RaiseStop, Join
<1>9. ASSUME NEW p \in Probes, BecomeDue(p) PROVE Untouched'
  BY <1>2, <1>9 DEF BecomeDue
<1>10. CASE UNCHANGED vars
  BY <1>2, <1>10 DEF vars
<1>11. QED
  BY <1>3, <1>4, <1>5, <1>6, <1>7, <1>8, <1>9, <1>10 DEF Next, Worker

LEMMA UntouchedHolds == Spec => []Untouched
<1>1. Init => Untouched
  <2>1. Init => Len(queue) = 0 /\ Len(arrived) = 0 /\ queue \in Seq({})
    BY DEF Init
  <2>2. QED
    BY <2>1 DEF Untouched, Contains
<1>2. QED
  BY <1>1, UntouchedStep, Inductive, PTL DEF Spec

LEMMA HasIsContains ==
  ASSUME NEW s \in Seq(Messages), NEW m
  PROVE  Delivery!Has(s, m) <=> Contains(s, m)
BY DEF Delivery!Has, Contains

\* What is owed when no probe waits, and when one does.
LEMMA OwedIs ==
  ASSUME IInv
  PROVE  /\ queue = << >> => Owed = << >>
         /\ queue # << >> /\ Head(queue) \notin Probes => Owed = queue
         /\ queue # << >> /\ Head(queue) \in Probes => Owed = Tail(queue)
         /\ queue # << >> /\ Tail(queue) # << >> => Head(Tail(queue)) \notin Probes
<1>1. ASSUME queue # << >>, Tail(queue) # << >> PROVE Head(Tail(queue)) \notin Probes
  <2>1. queue \in Seq(Messages \cup Probes)
    BY DEF IInv, TypeOK
  <2>2. 2 \in DOMAIN queue /\ Head(Tail(queue)) = queue[2]
    BY <1>1, <2>1
  <2>3. QED
    BY <2>2 DEF IInv, ProbesFirst
<1>2. QED
  BY <1>1 DEF Owed

\* A payload goes out: the message owed longest arrives, or it was a probe.
LEMMA GoesOutArrives ==
  ASSUME IInv, queue # << >>, GoesOut(Head(queue))
  PROVE  /\ Head(queue) \in Probes => UNCHANGED arrived
         /\ Head(queue) \notin Probes => Delivery!Arrive
<1>1. arrived \in Seq(Messages)
  BY DEF IInv, TypeOK
<1>2. Head(queue) \in Probes => UNCHANGED arrived
  BY DEF GoesOut
<1>3. ASSUME Head(queue) \notin Probes PROVE Delivery!Arrive
  <2>1. Owed = queue /\ Owed # << >>
    BY <1>3, OwedIs
  <2>2. Delivery!Has(arrived, Head(queue)) <=> Contains(arrived, Head(queue))
    BY <1>1, HasIsContains
  <2>3. QED
    BY <1>3, <2>1, <2>2 DEF GoesOut, Delivery!Arrive
<1>4. QED
  BY <1>2, <1>3

\* A payload enters the queue: a message is owed, a probe is not.
LEMMA PushAccepts ==
  ASSUME IInv, NEW p \in Messages \cup Probes, queue' = Append(queue, p),
         p \in Probes => queue = << >>
  PROVE  Owed' = IF p \in Probes THEN Owed ELSE Append(Owed, p)
<1>1. queue \in Seq(Messages \cup Probes)
  BY DEF IInv, TypeOK
<1>2. CASE queue = << >>
  <2>1. Owed = << >> /\ queue' = Append(Owed, p)
    BY <1>2, OwedIs
  <2>2. queue' # << >> /\ Head(queue') = p /\ Tail(queue') = << >>
    BY <1>1, <1>2
  <2>3. QED
    BY <2>1, <2>2 DEF Owed
<1>3. CASE queue # << >>
  <2>1. queue' # << >> /\ Head(queue') = Head(queue) /\ p \notin Probes
    BY <1>1, <1>3
  <2>2. Tail(queue') = Append(Tail(queue), p)
    BY <1>1, <1>3
  <2>3. QED
    BY <1>3, <2>1, <2>2 DEF Owed
<1>4. QED
  BY <1>2, <1>3

LEMMA InitPromises == Init => Delivery!Init
BY DEF Init, Owed, Delivery!Init

LEMMA SendPromises ==
  ASSUME IInv, SendSucceeds \/ SendFails
  PROVE  Delivery!Next \/ UNCHANGED <<Owed, arrived, running /\ ~stop>>
<1>1. queue # << >> /\ UNCHANGED <<running, stop>>
  BY DEF SendSucceeds, SendFails, Draining
<1>2. CASE SendSucceeds
  <2>1. queue' = Tail(queue) /\ GoesOut(Head(queue))
    BY <1>2 DEF SendSucceeds
  <2>2. Owed' = Tail(queue)
    BY <1>1, <2>1, OwedIs DEF Owed
  <2>3. CASE Head(queue) \in Probes
    <3>1. UNCHANGED arrived /\ Owed = Tail(queue)
      BY <1>1, <2>1, <2>3, GoesOutArrives, OwedIs
    <3>2. QED
      BY <1>1, <2>2, <3>1
  <2>4. CASE Head(queue) \notin Probes
    <3>1. Delivery!Arrive /\ Owed = queue
      BY <1>1, <2>1, <2>4, GoesOutArrives, OwedIs
    <3>2. Delivery!Confirm
      BY <1>1, <2>2, <3>1 DEF Delivery!Confirm
    <3>3. QED
      BY <3>2 DEF Delivery!Next
  <2>5. QED
    BY <2>3, <2>4
<1>3. CASE SendFails
  <2>1. /\ UNCHANGED queue /\ (GoesOut(Head(queue)) \/ UNCHANGED arrived)
        /\ UNCHANGED Owed
    BY <1>3 DEF SendFails, Owed
  <2>2. CASE UNCHANGED arrived
    BY <1>1, <2>1, <2>2
  <2>3. CASE GoesOut(Head(queue)) /\ Head(queue) \in Probes
    BY <1>1, <2>1, <2>3, GoesOutArrives
  <2>4. CASE GoesOut(Head(queue)) /\ Head(queue) \notin Probes
    <3>1. Delivery!Unnoticed
      BY <1>1, <2>1, <2>4, GoesOutArrives DEF Delivery!Unnoticed
    <3>2. QED
      BY <3>1 DEF Delivery!Next
  <2>5. QED
    BY <2>1, <2>2, <2>3, <2>4
<1>4. QED
  BY <1>2, <1>3

LEMMA EnqueuePromises ==
  ASSUME IInv, Untouched, NEW c \in Callers, NEW m \in Messages, Enqueue(c, m)
  PROVE  Delivery!Next \/ UNCHANGED <<Owed, arrived, running /\ ~stop>>
<1>1. m \in todo /\ UNCHANGED <<arrived, running, stop>>
  BY DEF Enqueue
<1>2. CASE UNCHANGED queue
  BY <1>1, <1>2 DEF Owed
<1>3. CASE queue' = Append(queue, m)
  <2>1. m \notin Probes
    BY TakServiceAssumption DEF Probes
  <2>2. Owed' = Append(Owed, m)
    BY <1>3, <2>1, PushAccepts
  <2>3. queue \in Seq(Messages \cup Probes) /\ arrived \in Seq(Messages)
    BY DEF IInv, TypeOK
  <2>4. ~Delivery!Has(arrived, m)
    BY <1>1, <2>3, HasIsContains DEF Untouched
  <2>5. ~Delivery!Has(Owed, m)
    <3>1. \A i \in DOMAIN queue : queue[i] # m
      BY <1>1 DEF Untouched
    <3>2. CASE Owed = queue
      BY <3>1, <3>2 DEF Delivery!Has
    <3>3. CASE queue # << >> /\ Owed = Tail(queue)
      <4>1. \A i \in DOMAIN Owed : Owed[i] = queue[i + 1] /\ i + 1 \in DOMAIN queue
        BY <2>3, <3>3
      <4>2. QED
        BY <3>1, <4>1 DEF Delivery!Has
    <3>4. QED
      BY <3>2, <3>3 DEF Owed
  <2>6. Delivery!Accept(m)
    BY <1>1, <2>2, <2>4, <2>5 DEF Delivery!Accept
  <2>7. QED
    BY <2>6 DEF Delivery!Next
<1>4. QED
  BY <1>2, <1>3 DEF Enqueue, Pushed

LEMMA ProbePromises ==
  ASSUME IInv, Probe PROVE UNCHANGED <<Owed, arrived, running /\ ~stop>>
<1>1. UNCHANGED <<arrived, running, stop>> /\ queue = << >>
  BY DEF Probe, IInv, ProbesOnEmpty
<1>2. CASE UNCHANGED queue
  BY <1>1, <1>2 DEF Owed
<1>3. ASSUME NEW p \in due, Pushed(p), ~UNCHANGED queue PROVE UNCHANGED Owed
  <2>1. p \in Probes /\ queue' = Append(queue, p)
    BY <1>3 DEF IInv, TypeOK, Pushed
  <2>2. QED
    BY <1>1, <2>1, PushAccepts
<1>4. QED
  BY <1>1, <1>2, <1>3 DEF Probe

LEMMA StepPromises ==
  ASSUME IInv, Untouched, [Next]_vars PROVE [Delivery!Next]_(Delivery!vars)
<1> SUFFICES Delivery!Next \/ UNCHANGED <<Owed, arrived, running /\ ~stop>>
  BY DEF Delivery!vars
<1>1. CASE UNCHANGED <<queue, arrived, running, stop>>
  BY <1>1 DEF Owed
<1>2. CASE UNCHANGED <<queue, arrived>>
  <2>1. UNCHANGED <<Owed, arrived>>
    BY <1>2 DEF Owed
  <2>2. (running /\ ~stop) \in BOOLEAN /\ (running /\ ~stop)' \in BOOLEAN
    OBVIOUS
  <2>3. UNCHANGED (running /\ ~stop) \/ Delivery!OpenOrClose
    BY <2>1, <2>2 DEF Delivery!OpenOrClose
  <2>4. QED
    BY <2>1, <2>3 DEF Delivery!Next
<1>3. ASSUME NEW c \in Callers, NEW m \in Messages, Enqueue(c, m)
      PROVE  Delivery!Next \/ UNCHANGED <<Owed, arrived, running /\ ~stop>>
  BY <1>3, EnqueuePromises
<1>4. ASSUME NEW c \in Callers, Flush(c)
      PROVE  Delivery!Next \/ UNCHANGED <<Owed, arrived, running /\ ~stop>>
  BY <1>1, <1>4 DEF Flush
<1>5. CASE Flushed \/ Wake \/ Drained \/ WorkerEnds \/ UNCHANGED vars
  BY <1>1, <1>5 DEF Flushed, Wake, Drained, WorkerEnds, vars
<1>6. CASE Pause \/ RaiseStop \/ Join
  BY <1>2, <1>6 DEF Pause, RaiseStop, Join
<1>7. ASSUME NEW p \in Probes, BecomeDue(p)
      PROVE  Delivery!Next \/ UNCHANGED <<Owed, arrived, running /\ ~stop>>
  BY <1>1, <1>7 DEF BecomeDue
<1>8. QED
  BY <1>3, <1>4, <1>5, <1>6, <1>7, SendPromises, ProbePromises DEF Next, Worker

\* For any number of callers and messages and a queue of any size: what arrives at the
\* TAK server has been accepted, the first arrivals come in the order of acceptance,
\* and nothing accepted is forgotten before it has arrived (drain_queue_to_sender,
\* TakServiceWorker).  That it does arrive is left to the runs.
THEOREM KeepsPromise == Spec => Delivery!Safety
<1>1. IInv /\ Untouched /\ [Next]_vars => [Delivery!Next]_(Delivery!vars)
  BY StepPromises
<1>2. QED
  BY <1>1, InitPromises, Inductive, UntouchedHolds, PTL DEF Spec, Delivery!Safety

===============================================================================
