------------------------------ MODULE TakService ------------------------------
(***************************************************************************)
(* The outbound side of the TAK connector: a bounded queue behind a mutex, *)
(* callers who enqueue a message and flush the queue in the same call, and *)
(* a worker that flushes what an earlier failure left and keeps the        *)
(* connection alive with pings and keepalives.  A send may fail before or  *)
(* after the payload has gone out; a payload leaves the queue only after a *)
(* send that succeeded.                                                    *)
(***************************************************************************)
EXTENDS Naturals, FiniteSets, Sequences, SequencesExt

CONSTANTS
  Messages,     \* chats and locations, enqueued once each
  Callers,      \* threads that hold the service
  Capacity,     \* queue_capacity
  Pauses        \* bound: how often a caller stops or starts the service

ASSUME TakServiceAssumption ==
  /\ IsFiniteSet(Messages) /\ IsFiniteSet(Callers)
  /\ Capacity \in Nat \ {0} /\ Pauses \in Nat
  /\ Messages \cap {"ping", "keepalive"} = {}
  /\ Callers \cap {"worker", "free"} = {}

VARIABLES
  queue,      \* TakOutboundQueue.pending
  running,    \* TakServiceState
  failed,     \* whether last_error is set
  holder,     \* who has the mutex: a caller, the worker, nobody
  worker,     \* where the worker is
  due,        \* which of ping and keepalive are due
  stop,       \* the worker's stop flag
  shut,       \* where shutdown is
  todo,       \* messages no caller has enqueued yet
  pauses,     \* stops and starts so far
  arrived     \* history: messages at the TAK server, in order of first arrival

vars == <<queue, running, failed, holder, worker, due, stop, shut, todo, pauses,
          arrived>>

Probes == {"ping", "keepalive"}

--------------------------------------------------------------------------
(* The queue and the sender. *)

\* Mutant of Pushed: the oldest payload makes room.
PushedOut(payload) ==
  /\ queue' = Append(IF Len(queue) < Capacity THEN queue ELSE Tail(queue), payload)
  /\ UNCHANGED failed

\* Mutant of Pushed: one payload too many.
PushedLate(payload) ==
  IF Len(queue) <= Capacity
  THEN queue' = Append(queue, payload) /\ UNCHANGED failed
  ELSE failed' = TRUE /\ UNCHANGED queue

\* TakOutboundQueue::push and what flush_after_enqueue makes of a refusal.
Pushed(payload) ==
  IF Len(queue) < Capacity
  THEN queue' = Append(queue, payload) /\ UNCHANGED failed
  ELSE failed' = TRUE /\ UNCHANGED queue

GoesOut(payload) ==
  arrived' = IF payload \in Probes \/ Contains(arrived, payload)
             THEN arrived ELSE Append(arrived, payload)


\* drain_queue_to_sender: somebody holds the mutex and the queue is not empty.
Draining == queue # << >> /\ (holder \in Callers \/ worker = "drain")

\* send succeeds and the payload is removed.
SendSucceeds ==
  /\ Draining
  /\ GoesOut(Head(queue))
  /\ queue' = Tail(queue)
  /\ UNCHANGED <<running, failed, holder, worker, due, stop, shut, todo, pauses>>

\* Mutant of SendFails: the worker sends its probes all the same.
SendFailsThenProbes ==
  /\ Draining
  /\ GoesOut(Head(queue)) \/ UNCHANGED arrived
  /\ failed' = TRUE
  /\ holder' = IF holder = "worker" THEN "worker" ELSE "free"
  /\ worker' = IF holder = "worker" THEN "probe" ELSE worker
  /\ UNCHANGED <<queue, running, due, stop, shut, todo, pauses>>

\* After a failed flush a caller returns; the worker has done with this round.
SendFails ==
  /\ Draining
  /\ GoesOut(Head(queue)) \/ UNCHANGED arrived
  /\ failed' = TRUE
  /\ holder' = "free"
  /\ worker' = IF holder = "worker" THEN "sleep" ELSE worker
  /\ UNCHANGED <<queue, running, due, stop, shut, todo, pauses>>

--------------------------------------------------------------------------
(* Callers. *)

\* enqueue_chat and enqueue_location, up to the flush.
Enqueue(c, m) ==
  /\ holder = "free"
  /\ m \in todo
  /\ todo' = todo \ {m}
  /\ IF ~running
     THEN UNCHANGED <<queue, failed, holder>>
     ELSE /\ Pushed(m)
          /\ holder' = IF queue' = queue THEN "free" ELSE c
  /\ UNCHANGED <<running, worker, due, stop, shut, pauses, arrived>>

\* flush_once.
Flush(c) ==
  /\ holder = "free" /\ running
  /\ holder' = c
  /\ UNCHANGED <<queue, running, failed, worker, due, stop, shut, todo, pauses,
                 arrived>>

\* The flush of a caller has emptied the queue.
Flushed ==
  /\ holder \in Callers /\ queue = << >>
  /\ failed' = FALSE
  /\ holder' = "free"
  /\ UNCHANGED <<queue, running, worker, due, stop, shut, todo, pauses, arrived>>

\* start and stop.
Pause ==
  /\ holder = "free"
  /\ pauses < Pauses
  /\ pauses' = pauses + 1
  /\ running' = ~running
  /\ UNCHANGED <<queue, failed, holder, worker, due, stop, shut, todo, arrived>>

--------------------------------------------------------------------------
(* The worker. *)

\* The sleep is over, the stop flag is not set, the mutex is free.
Wake ==
  /\ worker = "sleep" /\ ~stop /\ holder = "free"
  /\ IF running
     THEN /\ holder' = "worker"
          /\ worker' = IF queue # << >> THEN "drain" ELSE "probe"
     ELSE UNCHANGED <<holder, worker>>
  /\ UNCHANGED <<queue, running, failed, due, stop, shut, todo, pauses, arrived>>

\* Mutant of Drained: the worker goes on after the first payload.
DrainedOfOne ==
  /\ worker = "drain"
  /\ failed' = FALSE
  /\ worker' = "probe"
  /\ UNCHANGED <<queue, running, holder, due, stop, shut, todo, pauses, arrived>>

\* A flush of the worker has emptied the queue: it goes on with the probes.
Drained ==
  /\ worker = "drain" /\ queue = << >>
  /\ failed' = FALSE
  /\ worker' = "probe"
  /\ UNCHANGED <<queue, running, holder, due, stop, shut, todo, pauses, arrived>>

\* enqueue_ping, then enqueue_keepalive; the time of a probe is set whether it
\* is sent or not.
Probe ==
  /\ worker = "probe"
  /\ \/ /\ due = {}
        /\ worker' = "sleep" /\ holder' = "free"
        /\ UNCHANGED <<queue, failed, due>>
     \/ \E p \in due :
          /\ p = "keepalive" => "ping" \notin due
          /\ due' = due \ {p}
          /\ Pushed(p)
          /\ IF queue' = queue
             THEN worker' = "sleep" /\ holder' = "free"
             ELSE worker' = "drain" /\ UNCHANGED holder
  /\ UNCHANGED <<running, stop, shut, todo, pauses, arrived>>


WorkerEnds ==
  /\ worker = "sleep" /\ stop
  /\ worker' = "ended"
  /\ UNCHANGED <<queue, running, failed, holder, due, stop, shut, todo, pauses,
                 arrived>>

Worker == Wake \/ Drained \/ Probe \/ WorkerEnds

\* The keepalive interval has passed since the last ping or keepalive.
BecomeDue(p) ==
  /\ p \notin due
  /\ due' = due \cup {p}
  /\ UNCHANGED <<queue, running, failed, holder, worker, stop, shut, todo, pauses,
                 arrived>>

--------------------------------------------------------------------------
(* Shutdown: the flag, the join, the stop. *)

RaiseStop ==
  /\ shut = "no"
  /\ stop' = TRUE /\ shut' = "join"
  /\ UNCHANGED <<queue, running, failed, holder, worker, due, todo, pauses, arrived>>

Join ==
  /\ shut = "join" /\ worker = "ended" /\ holder = "free"
  /\ running' = FALSE /\ shut' = "done"
  /\ UNCHANGED <<queue, failed, holder, worker, due, stop, todo, pauses, arrived>>

--------------------------------------------------------------------------

Init ==
  /\ queue = << >> /\ running = TRUE /\ failed = FALSE
  /\ holder = "free" /\ worker = "sleep" /\ due = Probes
  /\ stop = FALSE /\ shut = "no"
  /\ todo = Messages /\ pauses = 0
  /\ arrived = << >>

Next ==
  \/ SendSucceeds \/ SendFails
  \/ \E c \in Callers : Flush(c) \/ \E m \in Messages : Enqueue(c, m)
  \/ Flushed \/ Pause
  \/ Worker
  \/ \E p \in Probes : BecomeDue(p)
  \/ RaiseStop \/ Join

Spec == Init /\ [][Next]_vars

\* Threads run; a server that is tried for ever answers now and then.
FairSpec ==
  /\ Spec
  /\ WF_vars(Worker) /\ WF_vars(Flushed)
  /\ WF_vars(SendSucceeds \/ SendFails) /\ SF_vars(SendSucceeds)

--------------------------------------------------------------------------
(* Properties. *)

\* Every variable has its type; the mutex has one holder at a time.
TypeOK ==
  /\ queue \in Seq(Messages \cup Probes) /\ Len(queue) <= Capacity
  /\ running \in BOOLEAN /\ failed \in BOOLEAN
  /\ holder \in Callers \cup {"worker", "free"}
  /\ worker \in {"sleep", "drain", "probe", "ended"}
  /\ (holder = "worker") = (worker \in {"drain", "probe"})
  /\ due \subseteq Probes /\ stop \in BOOLEAN
  /\ shut \in {"no", "join", "done"}
  /\ todo \subseteq Messages /\ pauses \in 0 .. Pauses
  /\ arrived \in Seq(Messages)

\* The messages in the queue: a probe is only ever put in an empty queue, so it can
\* but be the first payload.
Owed == IF queue # << >> /\ Head(queue) \in Probes THEN Tail(queue) ELSE queue

Delivery == INSTANCE TakPromise WITH owed <- Owed, open <- running /\ ~stop

\* The queue, its callers and its worker keep the promise of TakPromise: every
\* accepted message arrives, first arrivals in the order of acceptance, and none
\* waits for ever while the service is open (drain_queue_to_sender, TakServiceWorker).
Promise == Delivery!Spec

\* However long the server is away, pings and keepalives do not fill the queue
\* that messages need: at most one of them waits in it (TakServiceWorker).
AtMostOneProbe == Cardinality({i \in DOMAIN queue : queue[i] \in Probes}) <= 1

\* Outside of a call the status never hides a backlog behind a cleared error
\* (flush_after_enqueue, status).
BacklogIsReported == holder = "free" /\ queue # << >> => failed


===============================================================================
