----------------------------- MODULE ZmqDataPlane -----------------------------
(***************************************************************************)
(* The ZeroMQ data plane (crates/r3akt-transport-rns/src/lib.rs): callers  *)
(* on any thread enqueue a request in one of two bounded lanes and block   *)
(* for its answer; a single actor thread takes the requests out, keeps one *)
(* session with reticulumd, opens it again after every error, and restores *)
(* the service identity of the hub on each new session.                    *)
(*                                                                         *)
(* Time passes in whole seconds.  A request ages from the moment it is     *)
(* counted, a caller waits from the moment its request is in the lane.     *)
(***************************************************************************)
EXTENDS Integers, Sequences, FiniteSets

CONSTANTS
  Callers,         \* threads that use the data plane, one request each at a time
  Nobody,          \* the sender of a request whose caller has gone
  Traffics,        \* which kinds of request each caller makes: one of these
  Identities,      \* service identity configurations
  NoIdentity,      \* no service identity
  NoSession,       \* the actor has no session
  SendCapacity,    \* LXMF_ZMQ_SEND_QUEUE_CAPACITY
  ControlCapacity, \* LXMF_ZMQ_CONTROL_QUEUE_CAPACITY
  Burst,           \* sends in a row before a waiting control request goes first
  RequestTimeout,  \* config.request_timeout, in seconds
  QueueGrace,      \* LXMF_ZMQ_ACTOR_QUEUE_GRACE
  ReceiveGrace,    \* what a caller adds to the request timeout
  Modulus          \* the totals are kept modulo this number

SendKinds == {"send", "shutdown"}
ControlKinds == {"control", "register", "update"}

ASSUME KindAssumption ==
  /\ Traffics \subseteq [Callers -> SUBSET (SendKinds \cup ControlKinds)]
  /\ IsFiniteSet(Callers) /\ Nobody \notin Callers
  /\ NoIdentity \notin Identities
  /\ NoSession \notin Identities \cup {NoIdentity}
ASSUME CapacityAssumption ==
  /\ SendCapacity \in Nat \ {0} /\ ControlCapacity \in Nat \ {0}
  /\ Burst \in Nat \ {0} /\ Modulus \in Nat \ {0}
ASSUME DeadlineAssumption ==
  /\ RequestTimeout \in Nat /\ QueueGrace \in Nat /\ ReceiveGrace \in Nat
  /\ QueueGrace <= ReceiveGrace

VARIABLES
  caller,     \* what each caller is doing
  sendq,      \* the send lane
  ctlq,       \* the control lane
  depth,      \* queue_depth, send_queue_depth and control_queue_depth
  total,      \* enqueued_total, completed_total, failed_total and expired_total
  actor,      \* the actor thread: where it is, its request, its send_burst
  session,    \* the identity of the open session, or NoSession
  identity,   \* service_identity: the configuration registered last
  announced,  \* the configuration reticulumd has activated last
  dropped,    \* the handle has been dropped
  traffic     \* the kinds of request each caller makes, chosen at the start

vars == <<caller, sendq, ctlq, depth, total, actor, session, identity, announced,
          dropped, traffic>>
lanes == <<sendq, ctlq>>
links == <<session, identity, announced>>

\* seconds saturate here, past every deadline
AgeCap == RequestTimeout + ReceiveGrace
Ages == 0 .. AgeCap
Older(n) == IF n < AgeCap THEN n + 1 ELSE n

Requests == [kind : SendKinds \cup ControlKinds, from : Callers \cup {Nobody},
             id : Identities \cup {NoIdentity}, age : Ages]
NoRequest == [kind |-> "shutdown", from |-> Nobody, id |-> NoIdentity, age |-> 0]

Idle == [pc |-> "idle", wait |-> 0, req |-> NoRequest]

Lane(kind) == IF kind \in SendKinds THEN "send" ELSE "control"

\* without its sender: nobody reads the answer any more
Disowned(c, r) == IF r.from = c THEN [r EXCEPT !.from = Nobody] ELSE r
DisownedIn(c, q) == [i \in 1 .. Len(q) |-> Disowned(c, q[i])]

Plus1(n) == (n + 1) % Modulus
Minus1(n) == IF n = 0 THEN 0 ELSE n - 1

-----------------------------------------------------------------------------
(* The callers: request() and try_enqueue().                               *)

\* record_enqueued: the request is counted before it is in its lane
Request(c) ==
  /\ caller[c].pc = "idle" /\ ~dropped
  /\ \E kind \in traffic[c] :
       \E id \in (IF kind \in {"register", "update"} THEN Identities ELSE {NoIdentity}) :
         /\ caller' = [caller EXCEPT ![c] =
              [pc |-> "counted", wait |-> 0,
               req |-> [kind |-> kind, from |-> c, id |-> id, age |-> 0]]]
         /\ depth' = [depth EXCEPT !["all"] = @ + 1, ![Lane(kind)] = @ + 1]
         /\ total' = [total EXCEPT !["enqueued"] = Plus1(@)]
  /\ UNCHANGED <<lanes, actor, links, dropped, traffic>>

\* try_send puts the request in its lane, unless the lane is full or the actor
\* has gone: then it is counted out again
NotRolledBack(c) == UNCHANGED <<depth, total>>  \* mutant
RolledBack(c) ==
  LET kind == caller[c].req.kind
  IN  /\ depth' = [depth EXCEPT !["all"] = @ - 1, ![Lane(kind)] = @ - 1]
      /\ total' = [total EXCEPT !["enqueued"] = (@ + Modulus - 1) % Modulus]

FullLate(kind) == IF kind \in SendKinds THEN Len(sendq) > SendCapacity  \* mutant
                                        ELSE Len(ctlq) > ControlCapacity
Full(kind) == IF kind \in SendKinds THEN Len(sendq) >= SendCapacity
                                    ELSE Len(ctlq) >= ControlCapacity

Refused(c) ==
  /\ caller[c].pc = "counted"
  /\ actor.pc = "stopped" \/ Full(caller[c].req.kind)
  /\ RolledBack(c)
  /\ caller' = [caller EXCEPT ![c] = Idle]
  /\ UNCHANGED <<lanes, actor, links, dropped, traffic>>

Enqueue(c) ==
  /\ caller[c].pc = "counted"
  /\ LET req == caller[c].req
     IN  /\ actor.pc # "stopped" /\ ~Full(req.kind)
         /\ IF req.kind \in SendKinds
            THEN sendq' = Append(sendq, req) /\ UNCHANGED ctlq
            ELSE ctlq' = Append(ctlq, req) /\ UNCHANGED sendq
  /\ caller' = [caller EXCEPT ![c].pc = "waiting", ![c].req = NoRequest]
  /\ UNCHANGED <<depth, total, actor, links, dropped, traffic>>

\* recv_timeout: the request stays where it is, and its answer is for nobody
GiveUp(c) ==
  /\ caller[c].pc = "waiting" /\ caller[c].wait >= RequestTimeout + ReceiveGrace
  /\ caller' = [caller EXCEPT ![c] = Idle]
  /\ sendq' = DisownedIn(c, sendq) /\ ctlq' = DisownedIn(c, ctlq)
  /\ actor' = [actor EXCEPT !.cur = Disowned(c, actor.cur)]
  /\ UNCHANGED <<depth, total, links, dropped, traffic>>

\* The last handle goes when no call is under way.  It leaves an uncounted
\* shutdown request in the send lane, if there is room.
Drop ==
  /\ ~dropped /\ \A c \in Callers : caller[c].pc = "idle"
  /\ dropped' = TRUE
  /\ sendq' = IF actor.pc = "stopped" \/ Full("shutdown") THEN sendq
              ELSE Append(sendq, NoRequest)
  /\ UNCHANGED <<caller, ctlq, depth, total, actor, links, traffic>>

\* these callers get their answers, or find their answer channels closed
Answered(who) == caller' = [c \in Callers |-> IF c \in who THEN Idle ELSE caller[c]]
Senders(q) == {q[i].from : i \in 1 .. Len(q)} \ {Nobody}

-----------------------------------------------------------------------------
(* The actor: run_zmq_data_plane_actor.                                    *)

\* actor_request_expired
ExpiredLate(r) == r.age > RequestTimeout + QueueGrace  \* mutant
Expired(r) == r.age >= RequestTimeout + QueueGrace

\* recv_prioritized_actor_request: sends first, until a burst of them is over.  Its
\* looks at the two lanes are one step: a request that slips in between them has
\* arrived after it.
SendsFirst == sendq # <<>>  \* mutant: control requests never go first
SendsTurn == sendq # <<>> /\ (actor.burst < Burst \/ ctlq = <<>>)

\* record_dequeued of an uncounted shutdown request stops at zero
CountedOut(kind) == [depth EXCEPT !["all"] = Minus1(@), ![Lane(kind)] = Minus1(@)]

\* a request that has expired is thrown away with its answer channel
Take(r, burst) ==
  /\ depth' = CountedOut(r.kind)
  /\ IF Expired(r)
     THEN /\ actor' = [actor EXCEPT !.burst = burst]
          /\ total' = [total EXCEPT !["expired"] = Plus1(@)]
          /\ Answered({r.from})
     ELSE /\ actor' = [pc |-> "start", cur |-> r, burst |-> burst]
          /\ UNCHANGED <<total, caller>>
  /\ UNCHANGED <<links, dropped, traffic>>

TakeSend ==
  /\ actor.pc = "recv" /\ SendsTurn
  /\ sendq' = Tail(sendq) /\ UNCHANGED ctlq
  /\ Take(Head(sendq), IF actor.burst < Burst THEN actor.burst + 1 ELSE Burst)

TakeControl ==
  /\ actor.pc = "recv" /\ ~SendsTurn /\ ctlq # <<>>
  /\ ctlq' = Tail(ctlq) /\ UNCHANGED sendq
  /\ Take(Head(ctlq), 0)

\* the actor returns: the requests left in the lanes are dropped with them
Stopping ==
  /\ actor' = [actor EXCEPT !.pc = "stopped", !.cur = NoRequest]
  /\ Answered({actor.cur.from} \cup Senders(sendq) \cup Senders(ctlq))
  /\ sendq' = <<>> /\ ctlq' = <<>>

\* both lanes are empty and nobody is left to fill them
LanesClosedByShutdown == FALSE  \* mutant: only a shutdown request ends the actor
LanesClosed == dropped /\ sendq = <<>> /\ ctlq = <<>>
EndOfLanes ==
  /\ actor.pc = "recv" /\ LanesClosed
  /\ Stopping
  /\ UNCHANGED <<depth, total, links, dropped, traffic>>

\* the answer of the request in hand, on the way back to the next one
Reply ==
  /\ actor' = [actor EXCEPT !.pc = "recv", !.cur = NoRequest]
  /\ Answered({actor.cur.from})
  /\ UNCHANGED lanes

Completed(ok) == total' = [total EXCEPT ![IF ok THEN "completed" ELSE "failed"] = Plus1(@)]

\* a shutdown asks nothing of reticulumd, with a session or without
ShutdownAtOnce ==
  /\ actor.pc = "start" /\ actor.cur.kind = "shutdown"
  /\ Completed(TRUE) /\ Stopping
  /\ UNCHANGED <<depth, links, dropped, traffic>>

\* The session is there, or is opened and the identity restored on it.  An error
\* of the three calls that restore it may come after reticulumd activated it.
Restored == IF identity = NoIdentity THEN announced ELSE identity

OpenSession ==
  /\ actor.pc = "start" /\ actor.cur.kind # "shutdown"
  /\ session = NoSession
  /\ \/ /\ session' = identity
        /\ announced' = Restored
        /\ actor' = [actor EXCEPT !.pc = "perform"]
        /\ UNCHANGED <<caller, lanes, total>>
     \/ /\ announced' \in {announced, Restored}
        /\ Completed(FALSE) /\ Reply
        /\ UNCHANGED session
  /\ UNCHANGED <<depth, identity, dropped, traffic>>

UseSession ==
  /\ actor.pc = "start" /\ actor.cur.kind # "shutdown"
  /\ session # NoSession
  /\ actor' = [actor EXCEPT !.pc = "perform"]
  /\ UNCHANGED <<caller, lanes, depth, total, links, dropped, traffic>>

\* a message, a status, an announcement, a poll of events or of the history
Call(ok) ==
  /\ actor.cur.kind \in {"send", "control"}
  /\ UNCHANGED <<identity, announced>>

\* register_zmq_actor_identity and update_zmq_actor_identity import, activate
\* and announce; an update needs the identity of the session.
Announce(ok) ==
  /\ actor.cur.kind \in {"register", "update"}
  /\ ok => actor.cur.kind = "register" \/ session # NoIdentity
  /\ announced' \in (IF ok THEN {actor.cur.id}
                     ELSE IF actor.cur.kind = "update" /\ session = NoIdentity THEN {announced}
                     ELSE {announced, actor.cur.id})
  /\ identity' = IF ok THEN actor.cur.id ELSE identity

\* send_lxmf_zmq_actor_request: an error, a timeout included, ends the session
SessionKept(ok) == session' = IF ok THEN identity' ELSE session  \* mutant
SessionAfter(ok) == session' = IF ok THEN identity' ELSE NoSession

Perform ==
  /\ actor.pc = "perform"
  /\ \E ok \in BOOLEAN :
       /\ Call(ok) \/ Announce(ok)
       /\ SessionAfter(ok)
       /\ Completed(ok) /\ Reply
  /\ UNCHANGED <<depth, dropped, traffic>>

-----------------------------------------------------------------------------
\* a second goes by
AgedIn(q) == [i \in 1 .. Len(q) |-> [q[i] EXCEPT !.age = Older(@)]]
Second ==
  /\ sendq' = AgedIn(sendq) /\ ctlq' = AgedIn(ctlq)
  /\ caller' = [c \in Callers |->
       IF caller[c].pc = "counted" THEN [caller[c] EXCEPT !.req.age = Older(@)]
       ELSE IF caller[c].pc = "waiting" THEN [caller[c] EXCEPT !.wait = Older(@)]
       ELSE caller[c]]
  /\ UNCHANGED <<depth, total, actor, links, dropped, traffic>>

Init ==
  /\ caller = [c \in Callers |-> Idle]
  /\ sendq = <<>> /\ ctlq = <<>>
  /\ depth = [l \in {"all", "send", "control"} |-> 0]
  /\ total = [n \in {"enqueued", "completed", "failed", "expired"} |-> 0]
  /\ actor = [pc |-> "recv", cur |-> NoRequest, burst |-> 0]
  /\ session = NoSession /\ identity = NoIdentity /\ announced = NoIdentity
  /\ dropped = FALSE
  /\ traffic \in Traffics

CallerStep(c) == Request(c) \/ Refused(c) \/ Enqueue(c) \/ GiveUp(c)

ActorStep ==
  \/ TakeSend \/ TakeControl
  \/ EndOfLanes
  \/ ShutdownAtOnce
  \/ OpenSession \/ UseSession
  \/ Perform

Next ==
  \/ \E c \in Callers : CallerStep(c)
  \/ Drop
  \/ ActorStep
  \/ Second

Spec == Init /\ [][Next]_vars

\* Threads run, and every call to reticulumd ends, in an error after the request
\* timeout if need be.  Nobody has to make a request or drop the handle, and no
\* second has to go by.
Fairness ==
  /\ WF_vars(ActorStep)
  /\ \A c \in Callers : WF_vars(Refused(c) \/ Enqueue(c))

FairSpec == Spec /\ Fairness

-----------------------------------------------------------------------------
(* Safety.                                                                 *)

\* The shape of the state.  The depths are naturals: taking a request back never
\* makes a counter of the data plane wrap around (transport-rns lib.rs:155).
TypeOK ==
  /\ caller \in [Callers -> [pc : {"idle", "counted", "waiting"}, wait : Ages, req : Requests]]
  /\ sendq \in Seq(Requests) /\ Len(sendq) <= SendCapacity
  /\ ctlq \in Seq(Requests) /\ Len(ctlq) <= ControlCapacity
  /\ depth \in [{"all", "send", "control"} -> Nat]
  /\ total \in [{"enqueued", "completed", "failed", "expired"} -> 0 .. Modulus - 1]
  /\ actor \in [pc : {"recv", "start", "perform", "stopped"}, cur : Requests, burst : 0 .. Burst]
  /\ session \in Identities \cup {NoIdentity, NoSession}
  /\ identity \in Identities \cup {NoIdentity}
  /\ announced \in Identities \cup {NoIdentity}
  /\ dropped \in BOOLEAN
  /\ traffic \in Traffics

\* Until the handle is dropped the depths say what is in the lanes, or about to be,
\* and every request counted is completed, failed, expired, in a lane or in hand:
\* neither a refusal nor an expired request leaves the counters wrong
\* (transport-rns lib.rs:135-239).
Counting(lane) == Cardinality({c \in Callers : caller[c].pc = "counted"
                                                /\ Lane(caller[c].req.kind) = lane})
CountersAreExact ==
  LET inHand == IF actor.pc \in {"start", "perform"} THEN 1 ELSE 0
  IN  ~dropped =>
        /\ actor.pc # "stopped" =>
             /\ depth["send"] = Len(sendq) + Counting("send")
             /\ depth["control"] = Len(ctlq) + Counting("control")
             /\ depth["all"] = depth["send"] + depth["control"]
        /\ total["enqueued"] =
             (total["completed"] + total["failed"] + total["expired"] + depth["all"] + inHand)
               % Modulus

\* Whatever the actor asks of reticulumd once a service identity has been registered,
\* it asks under the configuration registered last: a registration or an update that
\* failed half way is taken back before the next request (transport-rns lib.rs:1915).
ServedUnderRegisteredIdentity ==
  actor.pc = "perform" /\ identity # NoIdentity => announced = identity

-----------------------------------------------------------------------------
(* Action properties and liveness.                                         *)

\* The actor never starts on a request whose caller has given up, except the shutdown
\* the dropped handle leaves: a message that was reported as timed out while it was
\* still in its lane is not sent afterwards (transport-rns lib.rs:2030).
StartedIsAwaited ==
  [][actor.pc = "recv" /\ actor'.pc = "start" /\ ~dropped => actor'.cur.from # Nobody]_vars

\* Every request is answered, by the actor and not by the clock: the callers of
\* either lane get through however busy the other is (actor_helpers.rs:34).
EveryCallReturns == \A c \in Callers : caller[c].pc = "waiting" ~> caller[c].pc = "idle"

\* Once the last handle is gone the actor ends, even if its shutdown request found
\* no room in the lane or expired there (transport-rns lib.rs:1624).
DroppedActorStops == dropped ~> actor.pc = "stopped"
=============================================================================
