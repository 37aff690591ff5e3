-------------------------- MODULE ZmqDataPlaneProofs --------------------------
(***************************************************************************)
(* Theorems about ZmqDataPlane for every finite set of callers, every size *)
(* of the lanes, every burst and all deadlines.                            *)
(***************************************************************************)
EXTENDS ZmqDataPlane, FiniteSetTheorems, TLAPS

USE CapacityAssumption

-----------------------------------------------------------------------------
(* Remainders.                                                             *)

LEMMA DivMod ==
  ASSUME NEW x \in Int
  PROVE  /\ x \div Modulus \in Int /\ x % Modulus \in 0 .. Modulus - 1
         /\ x = Modulus * (x \div Modulus) + (x % Modulus)
<1>1. x = Modulus * (x \div Modulus) + (x % Modulus)
  OBVIOUS
<1>2. x \div Modulus \in Int /\ x % Modulus \in 0 .. Modulus - 1
  OBVIOUS
<1>3. QED
  BY <1>1, <1>2

LEMMA ModUnique ==
  ASSUME NEW k \in Int, NEW r \in 0 .. Modulus - 1
  PROVE  (Modulus * k + r) % Modulus = r
OBVIOUS

\* Adding to a remainder is adding to the number, and taking away likewise.
LEMMA ModPlusOne ==
  ASSUME NEW x \in Nat
  PROVE  ((x % Modulus) + 1) % Modulus = (x + 1) % Modulus
<1> DEFINE k == x \div Modulus
           r == x % Modulus
<1>1. k \in Int /\ r \in 0 .. Modulus - 1 /\ x = Modulus * k + r
  BY DivMod
<1> HIDE DEF k, r
<1>2. CASE r = Modulus - 1
  <2>1. x + 1 = Modulus * (k + 1) + 0 /\ r + 1 = Modulus * 1 + 0
    BY <1>1, <1>2
  <2>2. (Modulus * (k + 1) + 0) % Modulus = 0 /\ (Modulus * 1 + 0) % Modulus = 0
    BY <1>1, ModUnique
  <2>3. QED
    BY <2>1, <2>2 DEF r
<1>3. CASE r # Modulus - 1
  <2>1. x + 1 = Modulus * k + (r + 1) /\ r + 1 = Modulus * 0 + (r + 1)
        /\ r + 1 \in 0 .. Modulus - 1
    BY <1>1, <1>3
  <2>2. (Modulus * k + (r + 1)) % Modulus = r + 1
        /\ (Modulus * 0 + (r + 1)) % Modulus = r + 1
    BY <1>1, <2>1, ModUnique
  <2>3. QED
    BY <2>1, <2>2 DEF r
<1>4. QED
  BY <1>2, <1>3

LEMMA ModMinusOne ==
  ASSUME NEW x \in Nat \ {0}
  PROVE  ((x % Modulus) + Modulus - 1) % Modulus = (x - 1) % Modulus
<1> DEFINE k == (x - 1) \div Modulus
           r == (x - 1) % Modulus
<1>1. k \in Int /\ r \in 0 .. Modulus - 1 /\ x - 1 = Modulus * k + r
  <2>1. x - 1 \in Int
    OBVIOUS
  <2>2. QED
    BY <2>1, DivMod
<1> HIDE DEF k, r
<1>2. CASE r = Modulus - 1
  <2>1. x = Modulus * (k + 1) + 0
    BY <1>1, <1>2
  <2>2. (Modulus * (k + 1) + 0) % Modulus = 0
    BY <1>1, ModUnique
  <2>3. (Modulus * 0 + r) % Modulus = r /\ Modulus * 0 + r = 0 + Modulus - 1
    BY <1>1, <1>2, ModUnique
  <2>4. QED
    BY <2>1, <2>2, <2>3 DEF r
<1>3. CASE r # Modulus - 1
  <2>1. x = Modulus * k + (r + 1) /\ r + 1 \in 0 .. Modulus - 1
    BY <1>1, <1>3
  <2>2. (Modulus * k + (r + 1)) % Modulus = r + 1
    BY <1>1, <2>1, ModUnique
  <2>3. (Modulus * 1 + r) % Modulus = r /\ Modulus * 1 + r = (r + 1) + Modulus - 1
    BY <1>1, ModUnique
  <2>4. QED
    BY <2>1, <2>2, <2>3 DEF r
<1>4. QED
  BY <1>2, <1>3

\* A total that wraps leaves a sum it is part of as it would be.
LEMMA ModWrap ==
  ASSUME NEW n \in 0 .. Modulus - 1, NEW y \in Nat
  PROVE  (Plus1(n) + y) % Modulus = (n + 1 + y) % Modulus
<1> DEFINE k == y \div Modulus
           r == y % Modulus
<1>1. k \in Int /\ r \in 0 .. Modulus - 1 /\ y = Modulus * k + r
  BY DivMod
<1> HIDE DEF k, r
<1>2. CASE n + 1 < Modulus
  <2>1. n + 1 = Modulus * 0 + (n + 1)
    OBVIOUS
  <2>2. (Modulus * 0 + (n + 1)) % Modulus = n + 1
    BY <1>2, ModUnique
  <2>3. QED
    BY <2>1, <2>2 DEF Plus1
<1>3. CASE n + 1 = Modulus
  <2>1. n + 1 = Modulus * 1 + 0 /\ (Modulus * 1 + 0) % Modulus = 0
    BY <1>3, ModUnique
  <2>2. Plus1(n) = 0
    BY <2>1 DEF Plus1
  <2>3. n + 1 + y = Modulus * (k + 1) + r
    BY <1>1, <1>3
  <2>4. (Modulus * (k + 1) + r) % Modulus = r
    BY <1>1, ModUnique
  <2>5. QED
    BY <2>2, <2>3, <2>4 DEF r
<1>4. QED
  BY <1>2, <1>3

LEMMA Plus1Type ==
  ASSUME NEW n \in Int PROVE Plus1(n) \in 0 .. Modulus - 1 /\ Plus1(n) \in Nat
BY DivMod DEF Plus1

-----------------------------------------------------------------------------
(* The shape of the state, but for the sign of the depths.                 *)

CallerRecord == [pc : {"idle", "counted", "waiting"}, wait : Ages, req : Requests]
ActorRecord ==
  [pc : {"recv", "start", "perform", "stopped"}, cur : Requests, burst : 0 .. Burst]

\* A caller whose request is counted has it in hand under its own name and has not
\* begun to wait; no call is under way once the handle is dropped.
Clerk(c) ==
  /\ caller[c].pc = "counted" => caller[c].wait = 0 /\ caller[c].req.from = c
  /\ dropped => caller[c].pc = "idle"

\* Between two requests the actor has none in hand, and it leaves the lanes empty.
Rested ==
  /\ actor.pc \in {"recv", "stopped"} => actor.cur = NoRequest
  /\ actor.pc = "stopped" => sendq = << >> /\ ctlq = << >>

Shape ==
  /\ caller \in [Callers -> CallerRecord]
  /\ sendq \in Seq(Requests) /\ Len(sendq) <= SendCapacity
  /\ ctlq \in Seq(Requests) /\ Len(ctlq) <= ControlCapacity
  /\ depth \in [{"all", "send", "control"} -> Int]
  /\ total \in [{"enqueued", "completed", "failed", "expired"} -> 0 .. Modulus - 1]
  /\ actor \in ActorRecord
  /\ session \in Identities \cup {NoIdentity, NoSession}
  /\ identity \in Identities \cup {NoIdentity}
  /\ announced \in Identities \cup {NoIdentity}
  /\ dropped \in BOOLEAN
  /\ traffic \in Traffics
  /\ \A c \in Callers : Clerk(c)
  /\ Rested

LEMMA AgesType ==
  /\ AgeCap \in Nat /\ 0 \in Ages /\ Ages \subseteq Nat
  /\ \A n \in Ages : Older(n) \in Ages /\ n <= Older(n)
BY DeadlineAssumption DEF AgeCap, Ages, Older

LEMMA NoRequestType == NoRequest \in Requests /\ Idle \in CallerRecord
BY AgesType DEF NoRequest, Requests, Idle, CallerRecord, SendKinds

LEMMA DisownedType ==
  ASSUME NEW c, NEW q \in Seq(Requests)
  PROVE  /\ DisownedIn(c, q) \in Seq(Requests) /\ Len(DisownedIn(c, q)) = Len(q)
         /\ \A i \in 1 .. Len(q) : DisownedIn(c, q)[i] = Disowned(c, q[i])
         /\ \A r \in Requests :
              /\ Disowned(c, r) \in Requests
              /\ Disowned(c, r).age = r.age /\ Disowned(c, r).kind = r.kind
              /\ Disowned(c, r).from = IF r.from = c THEN Nobody ELSE r.from
<1>1. \A r \in Requests :
        /\ Disowned(c, r) \in Requests
        /\ Disowned(c, r).age = r.age /\ Disowned(c, r).kind = r.kind
        /\ Disowned(c, r).from = IF r.from = c THEN Nobody ELSE r.from
  BY DEF Disowned, Requests
<1>2. \A i \in 1 .. Len(q) : q[i] \in Requests
  OBVIOUS
<1>3. QED
  BY <1>1, <1>2 DEF DisownedIn

LEMMA AgedType ==
  ASSUME NEW q \in Seq(Requests)
  PROVE  /\ AgedIn(q) \in Seq(Requests) /\ Len(AgedIn(q)) = Len(q)
         /\ \A i \in 1 .. Len(q) : /\ AgedIn(q)[i].age = Older(q[i].age)
                                   /\ AgedIn(q)[i].from = q[i].from
<1> DEFINE Aged(r) == [r EXCEPT !.age = Older(@)]
<1>1. \A i \in 1 .. Len(q) : q[i] \in Requests
  OBVIOUS
<1>2. \A r \in Requests : /\ Aged(r) \in Requests
                          /\ Aged(r).age = Older(r.age) /\ Aged(r).from = r.from
  BY AgesType DEF Requests
<1>3. AgedIn(q) = [i \in 1 .. Len(q) |-> Aged(q[i])]
  BY DEF AgedIn
<1> HIDE DEF Aged
<1>4. QED
  BY <1>1, <1>2, <1>3

LEMMA AnsweredType ==
  ASSUME caller \in [Callers -> CallerRecord], \A c \in Callers : Clerk(c),
         NEW who, Answered(who), dropped' = dropped
  PROVE  caller' \in [Callers -> CallerRecord] /\ \A c \in Callers : Clerk(c)'
BY NoRequestType DEF Answered, Clerk, Idle

LEMMA TotalType ==
  ASSUME total \in [{"enqueued", "completed", "failed", "expired"} -> 0 .. Modulus - 1],
         NEW n \in {"enqueued", "completed", "failed", "expired"},
         NEW v \in 0 .. Modulus - 1, total' = [total EXCEPT ![n] = v]
  PROVE  total' \in [{"enqueued", "completed", "failed", "expired"} -> 0 .. Modulus - 1]
OBVIOUS

LEMMA ShapeInit == Init => Shape
<1> SUFFICES ASSUME Init PROVE Shape
  OBVIOUS
<1>1. \A c \in Callers : caller[c] = Idle
  BY DEF Init
<1>2. caller \in [Callers -> CallerRecord] /\ \A c \in Callers : Clerk(c)
  BY <1>1, NoRequestType DEF Init, Clerk, Idle
<1>3. sendq \in Seq(Requests) /\ ctlq \in Seq(Requests) /\ Len(sendq) = 0 /\ Len(ctlq) = 0
  BY DEF Init
<1>4. actor \in ActorRecord /\ Rested
  BY NoRequestType DEF Init, ActorRecord, Rested
<1>5. /\ depth \in [{"all", "send", "control"} -> Int]
      /\ total \in [{"enqueued", "completed", "failed", "expired"} -> 0 .. Modulus - 1]
  BY DEF Init
<1>6. /\ session \in Identities \cup {NoIdentity, NoSession}
      /\ identity \in Identities \cup {NoIdentity}
      /\ announced \in Identities \cup {NoIdentity}
      /\ dropped \in BOOLEAN /\ traffic \in Traffics
  BY DEF Init
<1>7. Len(sendq) <= SendCapacity /\ Len(ctlq) <= ControlCapacity
  BY <1>3
<1>8. QED
  BY <1>2, <1>3, <1>4, <1>5, <1>6, <1>7 DEF Shape

LEMMA ShapeRequest ==
  ASSUME Shape, NEW c \in Callers, Request(c) PROVE Shape'
<1>1. PICK kind \in traffic[c], id \in Identities \cup {NoIdentity} :
        /\ caller' = [caller EXCEPT ![c] =
              [pc |-> "counted", wait |-> 0,
               req |-> [kind |-> kind, from |-> c, id |-> id, age |-> 0]]]
        /\ depth' = [depth EXCEPT !["all"] = @ + 1, ![Lane(kind)] = @ + 1]
        /\ total' = [total EXCEPT !["enqueued"] = Plus1(@)]
  BY DEF Request
<1>2. kind \in SendKinds \cup ControlKinds /\ Lane(kind) \in {"send", "control"}
  BY KindAssumption DEF Shape, Lane
<1>3. caller' \in [Callers -> CallerRecord]
  BY <1>1, <1>2, AgesType DEF Shape, CallerRecord, Requests
<1>4. \A d \in Callers : Clerk(d)'
  BY <1>1 DEF Shape, Clerk, Request
<1>5. depth' \in [{"all", "send", "control"} -> Int]
  BY <1>1, <1>2 DEF Shape
<1>6. total' \in [{"enqueued", "completed", "failed", "expired"} -> 0 .. Modulus - 1]
  <2>1. total["enqueued"] \in Int
    BY DEF Shape
  <2>2. Plus1(total["enqueued"]) \in 0 .. Modulus - 1
    BY <2>1, Plus1Type
  <2>3. QED
    BY <1>1, <2>2 DEF Shape
<1>7. QED
  BY <1>3, <1>4, <1>5, <1>6 DEF Shape, Rested, Request, lanes, links

LEMMA ShapeRefused ==
  ASSUME Shape, NEW c \in Callers, Refused(c) PROVE Shape'
<1>1. /\ depth' = [depth EXCEPT !["all"] = @ - 1, ![Lane(caller[c].req.kind)] = @ - 1]
      /\ total' = [total EXCEPT !["enqueued"] = (@ + Modulus - 1) % Modulus]
      /\ caller' = [caller EXCEPT ![c] = Idle]
  BY DEF Refused, RolledBack
<1>2. caller' \in [Callers -> CallerRecord] /\ \A d \in Callers : Clerk(d)'
  <2>1. caller' \in [Callers -> CallerRecord]
    BY <1>1, NoRequestType DEF Shape
  <2>2. \A d \in Callers : Clerk(d)'
    BY <1>1 DEF Shape, Clerk, Idle, Refused
  <2>3. QED
    BY <2>1, <2>2
<1>3. depth' \in [{"all", "send", "control"} -> Int]
  BY <1>1, SMTT(30) DEF Shape, Lane
<1>4. total["enqueued"] + Modulus - 1 \in Int
  BY DEF Shape
<1>5. total' \in [{"enqueued", "completed", "failed", "expired"} -> 0 .. Modulus - 1]
  BY <1>1, <1>4, DivMod, TotalType DEF Shape
<1>6. QED
  BY <1>2, <1>3, <1>5 DEF Shape, Rested, Refused, lanes, links

LEMMA ShapeEnqueue ==
  ASSUME Shape, NEW c \in Callers, Enqueue(c) PROVE Shape'
<1> DEFINE req == caller[c].req
<1>1. req \in Requests
  BY DEF Shape, CallerRecord
<1>2. caller' = [caller EXCEPT ![c].pc = "waiting", ![c].req = NoRequest]
  BY DEF Enqueue
<1>3. caller' \in [Callers -> CallerRecord] /\ \A d \in Callers : Clerk(d)'
  <2> DEFINE waiting == [caller[c] EXCEPT !.pc = "waiting", !.req = NoRequest]
  <2>1. waiting \in CallerRecord /\ waiting.pc = "waiting"
    BY NoRequestType DEF Shape, CallerRecord
  <2>2. caller' = [caller EXCEPT ![c] = waiting]
    BY <1>2 DEF Shape
  <2>3. caller[c].pc = "counted" /\ ~dropped /\ dropped' = dropped
    BY DEF Shape, Clerk, Enqueue
  <2> HIDE DEF waiting
  <2>4. QED
    BY <2>1, <2>2, <2>3 DEF Shape, Clerk
<1> HIDE DEF req
<1>4. /\ sendq' \in Seq(Requests) /\ Len(sendq') <= SendCapacity
      /\ ctlq' \in Seq(Requests) /\ Len(ctlq') <= ControlCapacity
  <2>1. CASE req.kind \in SendKinds
    <3>1. sendq' = Append(sendq, req) /\ ctlq' = ctlq /\ ~(Len(sendq) >= SendCapacity)
      BY <2>1 DEF Enqueue, Full, req
    <3>2. QED
      BY <1>1, <3>1 DEF Shape
  <2>2. CASE req.kind \notin SendKinds
    <3>1. ctlq' = Append(ctlq, req) /\ sendq' = sendq /\ ~(Len(ctlq) >= ControlCapacity)
      BY <2>2 DEF Enqueue, Full, req
    <3>2. QED
      BY <1>1, <3>1 DEF Shape
  <2>3. QED
    BY <2>1, <2>2
<1>5. QED
  BY <1>3, <1>4 DEF Shape, Rested, Enqueue, links

LEMMA ShapeGiveUp ==
  ASSUME Shape, NEW c \in Callers, GiveUp(c) PROVE Shape'
<1>1. caller' \in [Callers -> CallerRecord] /\ \A d \in Callers : Clerk(d)'
  BY NoRequestType DEF Shape, Clerk, Idle, GiveUp
<1>2. actor.cur \in Requests /\ Disowned(c, actor.cur) \in Requests
  BY DisownedType DEF Shape, ActorRecord
<1>3. actor' \in ActorRecord
  BY <1>2 DEF Shape, ActorRecord, GiveUp
<1>4. Disowned(c, NoRequest) = NoRequest
  BY DEF Disowned, NoRequest
<1>5. Len(sendq') = Len(sendq) /\ Len(ctlq') = Len(ctlq)
      /\ sendq' \in Seq(Requests) /\ ctlq' \in Seq(Requests)
  BY DisownedType DEF Shape, GiveUp
<1>6. Rested'
  <2>1. actor'.pc = actor.pc /\ actor'.cur = Disowned(c, actor.cur)
    BY DEF Shape, ActorRecord, GiveUp
  <2>2. actor.pc = "stopped" => Len(sendq') = 0 /\ Len(ctlq') = 0
    BY <1>5 DEF Shape, Rested
  <2>3. QED
    BY <1>4, <1>5, <2>1, <2>2 DEF Shape, Rested
<1>7. QED
  BY <1>1, <1>3, <1>5, <1>6 DEF Shape, GiveUp, links

LEMMA ShapeDrop ==
  ASSUME Shape, Drop PROVE Shape'
<1>1. /\ sendq' \in Seq(Requests) /\ Len(sendq') <= SendCapacity
      /\ actor.pc = "stopped" => sendq' = sendq
  BY NoRequestType DEF Shape, Drop, Full, SendKinds
<1>2. \A d \in Callers : Clerk(d)'
  BY DEF Shape, Drop, Clerk
<1>3. QED
  BY <1>1, <1>2 DEF Shape, Rested, Drop, links

LEMMA ShapeSecond ==
  ASSUME Shape, Second PROVE Shape'
<1>1. /\ sendq' \in Seq(Requests) /\ Len(sendq') = Len(sendq)
      /\ ctlq' \in Seq(Requests) /\ Len(ctlq') = Len(ctlq)
  BY AgedType DEF Shape, Second
<1>2. Rested'
  BY <1>1 DEF Shape, Rested, Second
<1>3. \A d \in Callers :
        /\ caller'[d] \in CallerRecord /\ caller'[d].pc = caller[d].pc
        /\ caller[d].pc = "counted" => /\ caller'[d].wait = caller[d].wait
                                       /\ caller'[d].req.from = caller[d].req.from
  <2>1. SUFFICES ASSUME NEW d \in Callers
                 PROVE  /\ caller'[d] \in CallerRecord /\ caller'[d].pc = caller[d].pc
                        /\ caller[d].pc = "counted" =>
                             /\ caller'[d].wait = caller[d].wait
                             /\ caller'[d].req.from = caller[d].req.from
    OBVIOUS
  <2>2. caller[d] \in CallerRecord
    BY DEF Shape
  <2>3. CASE caller[d].pc = "counted"
    <3>1. caller'[d] = [caller[d] EXCEPT !.req.age = Older(@)]
      BY <2>3 DEF Second
    <3>2. QED
      BY <2>2, <3>1, AgesType DEF CallerRecord, Requests
  <2>4. CASE caller[d].pc = "waiting"
    <3>1. caller'[d] = [caller[d] EXCEPT !.wait = Older(@)]
      BY <2>4 DEF Second
    <3>2. QED
      BY <2>2, <2>4, <3>1, AgesType DEF CallerRecord
  <2>5. CASE caller[d].pc \notin {"counted", "waiting"}
    BY <2>2, <2>5 DEF Second
  <2>6. QED
    BY <2>3, <2>4, <2>5
<1>4. caller' \in [Callers -> CallerRecord] /\ \A d \in Callers : Clerk(d)'
  BY <1>3 DEF Shape, Second, Clerk
<1>5. QED
  BY <1>1, <1>2, <1>4 DEF Shape, Second, links

LEMMA ShapeTake ==
  ASSUME Shape, NEW r \in Requests, NEW burst \in 0 .. Burst, Take(r, burst),
         actor.pc = "recv",
         sendq' \in Seq(Requests), Len(sendq') <= SendCapacity,
         ctlq' \in Seq(Requests), Len(ctlq') <= ControlCapacity
  PROVE  Shape'
<1>1. depth' \in [{"all", "send", "control"} -> Int]
  <2>1. Lane(r.kind) \in {"send", "control"} /\ \A n \in Int : Minus1(n) \in Int
    BY DEF Lane, Minus1
  <2>2. depth' = [depth EXCEPT !["all"] = Minus1(@), ![Lane(r.kind)] = Minus1(@)]
    BY DEF Take, CountedOut
  <2>3. QED
    BY <2>1, <2>2 DEF Shape
<1>2. CASE Expired(r)
  <2>1. /\ actor' = [actor EXCEPT !.burst = burst]
        /\ total' = [total EXCEPT !["expired"] = Plus1(@)]
        /\ Answered({r.from}) /\ dropped' = dropped
    BY <1>2 DEF Take
  <2>2. caller' \in [Callers -> CallerRecord] /\ \A c \in Callers : Clerk(c)'
    BY <2>1, AnsweredType DEF Shape
  <2>3. actor' \in ActorRecord /\ actor'.pc = actor.pc /\ actor'.cur = actor.cur
    BY <2>1 DEF Shape, ActorRecord
  <2>4. Plus1(total["expired"]) \in 0 .. Modulus - 1
    BY Plus1Type DEF Shape
  <2>5. total' \in [{"enqueued", "completed", "failed", "expired"} -> 0 .. Modulus - 1]
    BY <2>1, <2>4 DEF Shape
  <2>6. QED
    BY <1>1, <2>2, <2>3, <2>5 DEF Shape, Rested, Take, links
<1>3. CASE ~Expired(r)
  <2>1. /\ actor' = [pc |-> "start", cur |-> r, burst |-> burst]
        /\ total' = total /\ caller' = caller /\ dropped' = dropped
    BY <1>3 DEF Take
  <2>2. actor' \in ActorRecord /\ actor'.pc = "start"
    BY <2>1 DEF ActorRecord
  <2>3. \A c \in Callers : Clerk(c)'
    BY <2>1 DEF Shape, Clerk
  <2>4. QED
    BY <1>1, <2>1, <2>2, <2>3 DEF Shape, Rested, Take, links
<1>4. QED
  BY <1>2, <1>3

\* What a lane is after its head has been taken.
LEMMA TailType ==
  ASSUME NEW q \in Seq(Requests), q # << >>
  PROVE  /\ Head(q) \in Requests /\ Head(q) = q[1] /\ Tail(q) \in Seq(Requests)
         /\ Len(q) \in Nat \ {0} /\ Len(Tail(q)) = Len(q) - 1
         /\ \A i \in 1 .. Len(q) - 1 : Tail(q)[i] = q[i + 1]
OBVIOUS

LEMMA ShapeTakeSend ==
  ASSUME Shape, TakeSend PROVE Shape'
<1>1. /\ sendq \in Seq(Requests) /\ sendq # << >>
      /\ sendq' = Tail(sendq) /\ ctlq' = ctlq /\ actor.pc = "recv"
  BY DEF TakeSend, SendsTurn, Shape
<1>2. /\ Head(sendq) \in Requests /\ sendq' \in Seq(Requests)
      /\ Len(sendq') <= SendCapacity
  BY <1>1, TailType DEF Shape
<1>3. (IF actor.burst < Burst THEN actor.burst + 1 ELSE Burst) \in 0 .. Burst
  BY DEF Shape, ActorRecord
<1>4. Take(Head(sendq), IF actor.burst < Burst THEN actor.burst + 1 ELSE Burst)
  BY DEF TakeSend
<1>5. ctlq' \in Seq(Requests) /\ Len(ctlq') <= ControlCapacity
  BY <1>1 DEF Shape
<1>6. QED
  BY <1>1, <1>2, <1>3, <1>4, <1>5, ShapeTake

LEMMA ShapeTakeControl ==
  ASSUME Shape, TakeControl PROVE Shape'
<1>1. /\ ctlq \in Seq(Requests) /\ ctlq # << >>
      /\ ctlq' = Tail(ctlq) /\ sendq' = sendq /\ actor.pc = "recv"
      /\ Take(Head(ctlq), 0)
  BY DEF TakeControl, Shape
<1>2. /\ Head(ctlq) \in Requests /\ ctlq' \in Seq(Requests)
      /\ Len(ctlq') <= ControlCapacity
  BY <1>1, TailType DEF Shape
<1>3. 0 \in 0 .. Burst
  OBVIOUS
<1>4. sendq' \in Seq(Requests) /\ Len(sendq') <= SendCapacity
  BY <1>1 DEF Shape
<1>5. QED
  BY <1>1, <1>2, <1>3, <1>4, ShapeTake

\* The actor ends, or answers and receives again.
LEMMA ShapeStopping ==
  ASSUME Shape, Stopping, UNCHANGED <<links, dropped, traffic, depth>>,
         UNCHANGED total \/ Completed(TRUE)
  PROVE  Shape'
<1>1. caller' \in [Callers -> CallerRecord] /\ \A c \in Callers : Clerk(c)'
  BY AnsweredType DEF Shape, Stopping
<1>2. actor' \in ActorRecord /\ actor'.pc = "stopped" /\ actor'.cur = NoRequest
  BY NoRequestType DEF Shape, Stopping, ActorRecord
<1>3. /\ sendq' = << >> /\ ctlq' = << >>
      /\ sendq' \in Seq(Requests) /\ ctlq' \in Seq(Requests)
      /\ Len(sendq') <= SendCapacity /\ Len(ctlq') <= ControlCapacity
  BY DEF Stopping
<1>4. total' \in [{"enqueued", "completed", "failed", "expired"} -> 0 .. Modulus - 1]
  <2>1. Plus1(total["completed"]) \in 0 .. Modulus - 1
    BY Plus1Type DEF Shape
  <2>2. QED
    BY <2>1 DEF Shape, Completed
<1>5. QED
  BY <1>1, <1>2, <1>3, <1>4 DEF Shape, Rested, links

LEMMA ShapeReply ==
  ASSUME Shape, Reply, NEW good \in BOOLEAN, Completed(good),
         UNCHANGED <<dropped, traffic, depth>>,
         session' \in Identities \cup {NoIdentity, NoSession},
         identity' \in Identities \cup {NoIdentity},
         announced' \in Identities \cup {NoIdentity}
  PROVE  Shape'
<1>1. caller' \in [Callers -> CallerRecord] /\ \A c \in Callers : Clerk(c)'
  BY AnsweredType DEF Shape, Reply
<1>2. actor' \in ActorRecord /\ actor'.pc = "recv" /\ actor'.cur = NoRequest
  BY NoRequestType DEF Shape, Reply, ActorRecord
<1>3. total' \in [{"enqueued", "completed", "failed", "expired"} -> 0 .. Modulus - 1]
  <2>1. Plus1(total["completed"]) \in 0 .. Modulus - 1
        /\ Plus1(total["failed"]) \in 0 .. Modulus - 1
    BY Plus1Type DEF Shape
  <2>2. QED
    BY <2>1 DEF Shape, Completed
<1>4. QED
  BY <1>1, <1>2, <1>3 DEF Shape, Rested, Reply, lanes

LEMMA ShapeOpenSession ==
  ASSUME Shape, OpenSession PROVE Shape'
<1>1. Restored \in Identities \cup {NoIdentity}
  BY DEF Shape, Restored
<1>2. CASE Completed(FALSE) /\ Reply /\ announced' \in {announced, Restored}
           /\ UNCHANGED session
  <2>1. /\ session' \in Identities \cup {NoIdentity, NoSession}
        /\ identity' \in Identities \cup {NoIdentity}
        /\ announced' \in Identities \cup {NoIdentity}
        /\ UNCHANGED <<dropped, traffic, depth>>
    BY <1>1, <1>2 DEF Shape, OpenSession
  <2>2. QED
    BY <1>2, <2>1, ShapeReply
<1>3. CASE /\ session' = identity /\ announced' = Restored
           /\ actor' = [actor EXCEPT !.pc = "perform"]
           /\ UNCHANGED <<caller, lanes, total>>
  <2>1. actor' \in ActorRecord /\ actor'.pc = "perform"
    BY <1>3 DEF Shape, ActorRecord
  <2>2. \A c \in Callers : Clerk(c)'
    BY <1>3 DEF Shape, Clerk, OpenSession
  <2>3. QED
    BY <1>1, <1>3, <2>1, <2>2 DEF Shape, Rested, OpenSession, lanes
<1>4. QED
  BY <1>2, <1>3 DEF OpenSession

LEMMA ShapeUseSession ==
  ASSUME Shape, UseSession PROVE Shape'
<1>1. actor' \in ActorRecord /\ actor'.pc = "perform"
  BY DEF Shape, ActorRecord, UseSession
<1>2. \A c \in Callers : Clerk(c)'
  BY DEF Shape, Clerk, UseSession
<1>3. QED
  BY <1>1, <1>2 DEF Shape, Rested, UseSession, lanes, links

LEMMA ShapePerform ==
  ASSUME Shape, Perform PROVE Shape'
<1>1. PICK good \in BOOLEAN :
        (Call(good) \/ Announce(good)) /\ SessionAfter(good) /\ Completed(good) /\ Reply
  BY DEF Perform
<1>2. actor.cur.id \in Identities \cup {NoIdentity}
  BY DEF Shape, ActorRecord, Requests
<1>3. /\ identity' \in Identities \cup {NoIdentity}
      /\ announced' \in Identities \cup {NoIdentity}
  BY <1>1, <1>2 DEF Shape, Call, Announce
<1>4. session' \in Identities \cup {NoIdentity, NoSession}
  BY <1>1, <1>3 DEF SessionAfter
<1>5. UNCHANGED <<dropped, traffic, depth>>
  BY DEF Perform
<1>6. QED
  BY <1>1, <1>3, <1>4, <1>5, ShapeReply

LEMMA ShapeStep ==
  ASSUME Shape, [Next]_vars PROVE Shape'
<1>1. ASSUME NEW c \in Callers, CallerStep(c) PROVE Shape'
  BY <1>1, ShapeRequest, ShapeRefused, ShapeEnqueue, ShapeGiveUp DEF CallerStep
<1>2. CASE EndOfLanes
  BY <1>2, ShapeStopping DEF EndOfLanes
<1>3. CASE ShutdownAtOnce
  BY <1>3, ShapeStopping DEF ShutdownAtOnce
<1>4. CASE UNCHANGED vars
  BY <1>4 DEF vars, Shape, Clerk, Rested
<1>5. QED
  BY <1>1, <1>2, <1>3, <1>4, ShapeDrop, ShapeSecond, ShapeTakeSend, ShapeTakeControl,
     ShapeOpenSession, ShapeUseSession, ShapePerform
  DEF Next, ActorStep

LEMMA ShapeHolds == Spec => []Shape
BY ShapeInit, ShapeStep, PTL DEF Spec

-----------------------------------------------------------------------------
(* Requests and their callers.                                             *)

\* f are the callers, s and t the lanes, h the caller of the request in hand.

\* A request in a lane that names its caller is at least as old as the caller's wait.
Claimed(f, q) ==
  \A i \in 1 .. Len(q) :
    q[i].from # Nobody => f[q[i].from].pc = "waiting" /\ f[q[i].from].wait <= q[i].age

\* No two requests name the same caller.
Apart(q) ==
  \A i, j \in 1 .. Len(q) : q[i].from = q[j].from /\ q[i].from # Nobody => i = j
Foreign(s, t) ==
  \A i \in 1 .. Len(s), j \in 1 .. Len(t) : s[i].from = t[j].from => s[i].from = Nobody
NotIn(q, h) == \A i \in 1 .. Len(q) : q[i].from = h => h = Nobody

OwnedBy(f, s, t, h) ==
  /\ Claimed(f, s) /\ Claimed(f, t) /\ (h # Nobody => f[h].pc = "waiting")
  /\ Apart(s) /\ Apart(t) /\ Foreign(s, t) /\ NotIn(s, h) /\ NotIn(t, h)

Owned == OwnedBy(caller, sendq, ctlq, actor.cur.from)

\* p is what is left of the lane q when its first d requests have been taken and
\* some have been disowned.
Remains(q, p, d) ==
  /\ d \in Nat /\ Len(p) = Len(q) - d
  /\ \A i \in 1 .. Len(p) : p[i].from \in {q[i + d].from, Nobody} /\ p[i].age = q[i + d].age

\* The callers that the lane q names are in g as they are in f.
SameNamed(f, g, q) == \A i \in 1 .. Len(q) : q[i].from # Nobody => g[q[i].from] = f[q[i].from]

\* The requests counted that are not in their lane yet.
SendsComing == Counting("send")
ControlsComing == Counting("control")

\* Counting, before the last handle goes: what is in a lane or about to be is in
\* its depth; the lanes of an actor that has ended may have taken some with them.
DepthsFit ==
  ~dropped =>
    /\ depth["all"] = depth["send"] + depth["control"]
    /\ depth["send"] >= SendsComing /\ depth["control"] >= ControlsComing
    /\ actor.pc # "stopped" =>
         /\ depth["send"] = Len(sendq) + SendsComing
         /\ depth["control"] = Len(ctlq) + ControlsComing
NoDepthNegative == \A l \in {"all", "send", "control"} : depth[l] >= 0

InHand == IF actor.pc \in {"start", "perform"} THEN 1 ELSE 0
Reckoned == total["completed"] + total["failed"] + total["expired"] + depth["all"] + InHand
TotalsFit == ~dropped => total["enqueued"] = Reckoned % Modulus

Accounts == NoDepthNegative /\ DepthsFit /\ TotalsFit

\* A request in the lane q whose caller has gone has expired, or is the shutdown of the
\* dropped handle.
GoneAreExpired(q) ==
  \A i \in 1 .. Len(q) : q[i].from = Nobody => Expired(q[i])
Abandoned == ~dropped => GoneAreExpired(sendq) /\ GoneAreExpired(ctlq)

\* A session is one of the identity registered last.
SessionFits ==
  /\ actor.pc = "perform" => session # NoSession
  /\ session # NoSession => /\ session = identity
                            /\ identity # NoIdentity => announced = identity

LEMMA RemainsFits ==
  ASSUME NEW q \in Seq(Requests), NEW p \in Seq(Requests), NEW d, Remains(q, p, d),
         NEW f, NEW g
  PROVE  /\ \A i \in 1 .. Len(p) : i + d \in 1 .. Len(q)
         /\ Apart(q) => Apart(p)
         /\ Claimed(f, q) /\ SameNamed(f, g, p) => Claimed(g, p)
<1>1. \A i \in 1 .. Len(p) : i + d \in 1 .. Len(q)
  BY DEF Remains
<1>2. Apart(q) => Apart(p)
  BY <1>1 DEF Remains, Apart
<1>3. Claimed(f, q) /\ SameNamed(f, g, p) => Claimed(g, p)
  <2>1. SUFFICES ASSUME Claimed(f, q), SameNamed(f, g, p),
                        NEW i \in 1 .. Len(p), p[i].from # Nobody
                 PROVE  g[p[i].from].pc = "waiting" /\ g[p[i].from].wait <= p[i].age
    BY DEF Claimed
  <2>2. /\ i + d \in 1 .. Len(q) /\ p[i].from = q[i + d].from /\ p[i].age = q[i + d].age
        /\ g[p[i].from] = f[p[i].from]
    BY <1>1, <2>1 DEF Remains, SameNamed
  <2>3. f[q[i + d].from].pc = "waiting" /\ f[q[i + d].from].wait <= q[i + d].age
    BY <2>1, <2>2 DEF Claimed
  <2>4. QED
    BY <2>2, <2>3
<1>4. QED
  BY <1>1, <1>2, <1>3

\* Requests leave and callers stop waiting; the request in hand may be another.
LEMMA OwnedShrinks ==
  ASSUME NEW s \in Seq(Requests), NEW t \in Seq(Requests), NEW f, NEW h,
         OwnedBy(f, s, t, h),
         NEW p \in Seq(Requests), NEW q \in Seq(Requests), NEW d, NEW e, NEW g, NEW k,
         Remains(s, p, d), Remains(t, q, e), SameNamed(f, g, p), SameNamed(f, g, q),
         NotIn(p, k), NotIn(q, k), k # Nobody => g[k].pc = "waiting"
  PROVE  OwnedBy(g, p, q, k)
<1>1. Apart(p) /\ Apart(q) /\ Claimed(g, p) /\ Claimed(g, q)
  BY RemainsFits DEF OwnedBy
<1>2. Foreign(p, q)
  <2>1. SUFFICES ASSUME NEW i \in 1 .. Len(p), NEW j \in 1 .. Len(q), p[i].from = q[j].from,
                        p[i].from # Nobody
                 PROVE  FALSE
    BY DEF Foreign
  <2>2. i + d \in 1 .. Len(s) /\ j + e \in 1 .. Len(t)
    BY RemainsFits
  <2>3. p[i].from = s[i + d].from /\ q[j].from = t[j + e].from
    BY <2>1 DEF Remains
  <2>4. QED
    BY <2>1, <2>2, <2>3 DEF OwnedBy, Foreign
<1>3. QED
  BY <1>1, <1>2 DEF OwnedBy

\* A request enters a lane.
LEMMA AppendFits ==
  ASSUME NEW q \in Seq(Requests), NEW r \in Requests, NEW f, NEW g, NEW h,
         Claimed(f, q), Apart(q), NotIn(q, r.from), SameNamed(f, g, q),
         r.from # Nobody => g[r.from].pc = "waiting" /\ g[r.from].wait <= r.age
  PROVE  LET p == Append(q, r)
         IN  /\ Claimed(g, p) /\ Apart(p)
             /\ NotIn(q, h) /\ h # r.from => NotIn(p, h)
<1> DEFINE p == Append(q, r)
<1>1. /\ p \in Seq(Requests) /\ Len(q) \in Nat /\ Len(p) = Len(q) + 1
      /\ \A i \in 1 .. Len(q) : p[i] = q[i]
      /\ p[Len(q) + 1] = r
  OBVIOUS
<1>2. \A i \in 1 .. Len(p) : i = Len(q) + 1 \/ i \in 1 .. Len(q)
  BY <1>1
<1> HIDE DEF p
<1>3. Claimed(g, p)
  BY <1>1, <1>2 DEF Claimed, SameNamed
<1>4. Apart(p)
  BY <1>1, <1>2 DEF Apart, NotIn
<1>5. NotIn(q, h) /\ h # r.from => NotIn(p, h)
  BY <1>1, <1>2 DEF NotIn
<1>6. QED
  BY <1>3, <1>4, <1>5 DEF p

LEMMA AppendForeign ==
  ASSUME NEW s \in Seq(Requests), NEW t \in Seq(Requests), Foreign(s, t), NEW r \in Requests
  PROVE  /\ NotIn(t, r.from) => Foreign(Append(s, r), t)
         /\ NotIn(s, r.from) => Foreign(s, Append(t, r))
<1>1. ASSUME NEW q \in Seq(Requests)
      PROVE  /\ Append(q, r) \in Seq(Requests) /\ Len(Append(q, r)) = Len(q) + 1
             /\ \A i \in 1 .. Len(Append(q, r)) :
                  \/ i \in 1 .. Len(q) /\ Append(q, r)[i] = q[i]
                  \/ Append(q, r)[i] = r
  OBVIOUS
<1>2. NotIn(t, r.from) => Foreign(Append(s, r), t)
  BY <1>1 DEF Foreign, NotIn
<1>3. NotIn(s, r.from) => Foreign(s, Append(t, r))
  BY <1>1 DEF Foreign, NotIn
<1>4. QED
  BY <1>2, <1>3

\* Nobody names a caller that does not wait.
LEMMA Unnamed ==
  ASSUME NEW f, NEW s \in Seq(Requests), NEW t \in Seq(Requests), NEW h,
         OwnedBy(f, s, t, h), NEW c \in Callers, f[c].pc # "waiting"
  PROVE  /\ NotIn(s, c) /\ NotIn(t, c) /\ h # c
         /\ \A i \in 1 .. Len(s) : s[i].from # c
         /\ \A i \in 1 .. Len(t) : t[i].from # c
BY KindAssumption DEF OwnedBy, Claimed, NotIn

LEMMA RemainsSelf == ASSUME NEW q \in Seq(Requests) PROVE Remains(q, q, 0)
BY DEF Remains

LEMMA RemainsTail ==
  ASSUME NEW q \in Seq(Requests), q # << >> PROVE Remains(q, Tail(q), 1)
BY TailType DEF Remains

LEMMA NobodyNotIn == ASSUME NEW q PROVE NotIn(q, Nobody)
BY DEF NotIn

LEMMA SendersType ==
  ASSUME NEW q \in Seq(Requests)
  PROVE  \A i \in 1 .. Len(q) : /\ q[i] \in Requests /\ q[i].age \in Nat
                                /\ q[i].from \in Callers \cup {Nobody}
<1>1. \A i \in 1 .. Len(q) : q[i] \in Requests
  OBVIOUS
<1>2. \A r \in Requests : r.from \in Callers \cup {Nobody} /\ r.age \in Nat
  BY AgesType DEF Requests
<1>3. QED
  BY <1>1, <1>2

LEMMA AnsweredSame ==
  ASSUME Shape, NEW who, Answered(who), NEW q \in Seq(Requests),
         \A i \in 1 .. Len(q) : q[i].from \notin who \ {Nobody}
  PROVE  SameNamed(caller, caller', q)
<1>1. \A i \in 1 .. Len(q) : q[i].from \in Callers \cup {Nobody}
  BY SendersType
<1>2. QED
  BY <1>1 DEF SameNamed, Answered

LEMMA OwnedInit == Init => Owned
BY DEF Init, Owned, OwnedBy, Claimed, Apart, Foreign, NotIn, NoRequest

\* The caller of a request in hand gets its answer, and the actor receives again.
LEMMA OwnedReply ==
  ASSUME Shape, Owned, Answered({actor.cur.from}), actor'.cur = NoRequest,
         UNCHANGED <<sendq, ctlq>>
  PROVE  Owned'
<1> DEFINE h == actor.cur.from
<1>1. /\ sendq \in Seq(Requests) /\ ctlq \in Seq(Requests)
      /\ OwnedBy(caller, sendq, ctlq, h) /\ NotIn(sendq, h) /\ NotIn(ctlq, h)
  BY DEF Shape, Owned, OwnedBy
<1>2. SameNamed(caller, caller', sendq) /\ SameNamed(caller, caller', ctlq)
  BY <1>1, AnsweredSame DEF NotIn
<1>3. OwnedBy(caller', sendq, ctlq, Nobody)
  BY <1>1, <1>2, OwnedShrinks, RemainsSelf, NobodyNotIn
<1>4. QED
  BY <1>3 DEF Owned, NoRequest

LEMMA OwnedStopping == ASSUME Shape, Owned, Stopping PROVE Owned'
BY DEF Stopping, Owned, OwnedBy, Claimed, Apart, Foreign, NotIn, NoRequest, Shape, ActorRecord

LEMMA OwnedRequest ==
  ASSUME Shape, Owned, NEW c \in Callers, Request(c) \/ Refused(c) PROVE Owned'
<1>1. /\ caller[c].pc # "waiting" /\ \A b \in Callers : b # c => caller'[b] = caller[b]
      /\ UNCHANGED <<sendq, ctlq, actor>>
  BY DEF Request, Refused, Shape, lanes
<1>2. /\ sendq \in Seq(Requests) /\ ctlq \in Seq(Requests)
      /\ OwnedBy(caller, sendq, ctlq, actor.cur.from)
      /\ actor.cur.from \in Callers \cup {Nobody}
  BY DEF Shape, Owned, ActorRecord, Requests
<1>3. /\ actor.cur.from # c
      /\ \A i \in 1 .. Len(sendq) : sendq[i].from # c
      /\ \A i \in 1 .. Len(ctlq) : ctlq[i].from # c
  BY <1>1, <1>2, Unnamed
<1>4. SameNamed(caller, caller', sendq) /\ SameNamed(caller, caller', ctlq)
  BY <1>1, <1>2, <1>3, SendersType DEF SameNamed
<1>5. /\ NotIn(sendq, actor.cur.from) /\ NotIn(ctlq, actor.cur.from)
      /\ actor.cur.from # Nobody => caller'[actor.cur.from].pc = "waiting"
  BY <1>1, <1>2, <1>3 DEF OwnedBy
<1>6. OwnedBy(caller', sendq, ctlq, actor.cur.from)
  BY <1>2, <1>4, <1>5, OwnedShrinks, RemainsSelf, ZenonT(60)
<1>7. QED
  BY <1>1, <1>6 DEF Owned

LEMMA OwnedEnqueue ==
  ASSUME Shape, Owned, NEW c \in Callers, Enqueue(c) PROVE Owned'
<1> DEFINE r == caller[c].req
           h == actor.cur.from
<1>1. /\ r \in Requests /\ r.from = c /\ r.age \in Nat
      /\ caller[c].pc = "counted" /\ caller[c].wait = 0 /\ c # Nobody
  BY AgesType, KindAssumption DEF Shape, Clerk, CallerRecord, Enqueue, Requests
<1>2. /\ caller'[c].pc = "waiting" /\ caller'[c].wait = 0
      /\ \A b \in Callers : b # c => caller'[b] = caller[b]
      /\ actor' = actor
  BY <1>1 DEF Enqueue, Shape, CallerRecord
<1>3. /\ sendq \in Seq(Requests) /\ ctlq \in Seq(Requests)
      /\ OwnedBy(caller, sendq, ctlq, h) /\ h \in Callers \cup {Nobody}
  BY DEF Shape, Owned, ActorRecord, Requests
<1>4. /\ NotIn(sendq, c) /\ NotIn(ctlq, c) /\ h # c
      /\ \A i \in 1 .. Len(sendq) : sendq[i].from # c
      /\ \A i \in 1 .. Len(ctlq) : ctlq[i].from # c
  BY <1>1, <1>3, Unnamed
<1>5. SameNamed(caller, caller', sendq) /\ SameNamed(caller, caller', ctlq)
  BY <1>2, <1>3, <1>4, SendersType DEF SameNamed
<1>6. Claimed(caller', sendq) /\ Claimed(caller', ctlq)
  BY <1>3, <1>5 DEF OwnedBy, Claimed, SameNamed
<1>7. h # Nobody => caller'[h].pc = "waiting"
  BY <1>2, <1>3, <1>4 DEF OwnedBy
<1>8. \A q \in {sendq, ctlq} :
        /\ Claimed(caller', Append(q, r)) /\ Apart(Append(q, r)) /\ NotIn(Append(q, r), h)
  BY <1>1, <1>2, <1>3, <1>4, <1>5, AppendFits DEF OwnedBy
<1>9. Foreign(Append(sendq, r), ctlq) /\ Foreign(sendq, Append(ctlq, r))
  BY <1>1, <1>3, <1>4, AppendForeign DEF OwnedBy
<1>10. \/ sendq' = Append(sendq, r) /\ ctlq' = ctlq
       \/ sendq' = sendq /\ ctlq' = Append(ctlq, r)
  BY DEF Enqueue
<1> HIDE DEF r, h
<1>11. OwnedBy(caller', sendq', ctlq', h)
  BY <1>3, <1>6, <1>7, <1>8, <1>9, <1>10 DEF OwnedBy
<1>12. QED
  BY <1>2, <1>11 DEF Owned, h

LEMMA OwnedDrop ==
  ASSUME Shape, Owned, Drop PROVE Owned'
<1>1. /\ sendq \in Seq(Requests) /\ ctlq \in Seq(Requests)
      /\ OwnedBy(caller, sendq, ctlq, actor.cur.from)
      /\ actor.cur.from \in Callers \cup {Nobody}
  BY DEF Shape, Owned, ActorRecord, Requests
<1>2. UNCHANGED <<caller, ctlq, actor>> /\ sendq' \in {sendq, Append(sendq, NoRequest)}
  BY DEF Drop
<1>3. actor.cur.from = Nobody
  BY <1>1, NoRequestType DEF Drop, OwnedBy, Shape
<1>4. NoRequest \in Requests /\ NoRequest.from = Nobody
  BY NoRequestType DEF NoRequest
<1>5. SameNamed(caller, caller, sendq) /\ NotIn(sendq, Nobody) /\ NotIn(ctlq, Nobody)
  BY NobodyNotIn DEF SameNamed
<1>6. /\ Claimed(caller, Append(sendq, NoRequest)) /\ Apart(Append(sendq, NoRequest))
      /\ Foreign(Append(sendq, NoRequest), ctlq)
  BY <1>1, <1>4, <1>5, AppendFits, AppendForeign DEF OwnedBy
<1>7. NotIn(Append(sendq, NoRequest), Nobody)
  BY NobodyNotIn
<1>8. QED
  BY <1>1, <1>2, <1>3, <1>6, <1>7 DEF Owned, OwnedBy

LEMMA OwnedGiveUp ==
  ASSUME Shape, Owned, NEW c \in Callers, GiveUp(c) PROVE Owned'
<1> DEFINE h == actor.cur.from
           k == actor'.cur.from
<1>1. /\ sendq \in Seq(Requests) /\ ctlq \in Seq(Requests) /\ actor.cur \in Requests
      /\ OwnedBy(caller, sendq, ctlq, h) /\ h \in Callers \cup {Nobody}
  BY DEF Shape, Owned, ActorRecord, Requests
<1>2. /\ \A b \in Callers : b # c => caller'[b] = caller[b]
      /\ sendq' = DisownedIn(c, sendq) /\ ctlq' = DisownedIn(c, ctlq)
      /\ actor' = [actor EXCEPT !.cur = Disowned(c, actor.cur)]
  BY DEF GiveUp, Shape
<1>3. k = IF h = c THEN Nobody ELSE h
  BY <1>1, <1>2, DisownedType DEF Shape, ActorRecord
<1>4. ASSUME NEW q \in Seq(Requests)
      PROVE  /\ DisownedIn(c, q) \in Seq(Requests) /\ Len(DisownedIn(c, q)) = Len(q)
             /\ \A i \in 1 .. Len(q) :
                  /\ DisownedIn(c, q)[i].from = IF q[i].from = c THEN Nobody ELSE q[i].from
                  /\ DisownedIn(c, q)[i].age = q[i].age
  BY DisownedType, SendersType
<1>5. ASSUME NEW q \in Seq(Requests)
      PROVE  /\ Remains(q, DisownedIn(c, q), 0)
             /\ SameNamed(caller, caller', DisownedIn(c, q))
             /\ NotIn(q, h) => NotIn(DisownedIn(c, q), k)
  <2> DEFINE p == DisownedIn(c, q)
  <2>1. /\ p \in Seq(Requests) /\ Len(p) = Len(q)
        /\ \A i \in 1 .. Len(q) : /\ p[i].from = IF q[i].from = c THEN Nobody ELSE q[i].from
                                  /\ p[i].age = q[i].age
    BY <1>4
  <2>2. \A i \in 1 .. Len(p) : p[i].from \in Callers \cup {Nobody}
    BY <2>1, SendersType
  <2> HIDE DEF p
  <2>3. Remains(q, p, 0)
    BY <2>1 DEF Remains
  <2>4. SameNamed(caller, caller', p)
    BY <1>2, <2>1, <2>2, KindAssumption DEF SameNamed
  <2>5. NotIn(q, h) => NotIn(p, k)
    BY <1>3, <2>1 DEF NotIn
  <2>6. QED
    BY <2>3, <2>4, <2>5 DEF p
<1>6. k # Nobody => caller'[k].pc = "waiting"
  BY <1>1, <1>2, <1>3 DEF OwnedBy
<1>7. sendq' \in Seq(Requests) /\ ctlq' \in Seq(Requests)
  BY <1>1, <1>2, <1>4
<1>8. NotIn(sendq', k) /\ NotIn(ctlq', k)
  BY <1>1, <1>2, <1>5 DEF OwnedBy
<1>9. /\ Remains(sendq, sendq', 0) /\ Remains(ctlq, ctlq', 0)
      /\ SameNamed(caller, caller', sendq') /\ SameNamed(caller, caller', ctlq')
  BY <1>1, <1>2, <1>5
<1> HIDE DEF h, k
<1>10. OwnedBy(caller', sendq', ctlq', k)
  BY <1>1, <1>6, <1>7, <1>8, <1>9, OwnedShrinks
<1>11. QED
  BY <1>10 DEF Owned, k

\* The head of a lane leaves it: its caller is named nowhere else.
LEMMA HeadIsSole ==
  ASSUME NEW s \in Seq(Requests), NEW t \in Seq(Requests), NEW f, NEW h,
         OwnedBy(f, s, t, h)
  PROVE  /\ s # << >> => /\ NotIn(Tail(s), s[1].from) /\ NotIn(t, s[1].from)
                         /\ s[1].from # Nobody => f[s[1].from].pc = "waiting"
         /\ t # << >> => /\ NotIn(s, t[1].from) /\ NotIn(Tail(t), t[1].from)
                         /\ t[1].from # Nobody => f[t[1].from].pc = "waiting"
<1>1. ASSUME NEW q \in Seq(Requests), q # << >>, Apart(q), Claimed(f, q)
      PROVE  /\ 1 \in 1 .. Len(q) /\ NotIn(Tail(q), q[1].from)
             /\ q[1].from # Nobody => f[q[1].from].pc = "waiting"
  <2>1. /\ 1 \in 1 .. Len(q) /\ Len(Tail(q)) = Len(q) - 1
        /\ \A i \in 1 .. Len(Tail(q)) : /\ Tail(q)[i] = q[i + 1] /\ i + 1 \in 1 .. Len(q)
                                        /\ i + 1 # 1
    BY <1>1, TailType
  <2>2. QED
    BY <1>1, <2>1 DEF Apart, Claimed, NotIn
<1>2. QED
  BY <1>1 DEF OwnedBy, Foreign, NotIn

LEMMA OwnedTake ==
  ASSUME Shape, Owned, actor.pc = "recv", NEW r \in Requests, NEW burst, Take(r, burst),
         NEW d, NEW e, Remains(sendq, sendq', d), Remains(ctlq, ctlq', e),
         sendq' \in Seq(Requests), ctlq' \in Seq(Requests),
         NotIn(sendq', r.from), NotIn(ctlq', r.from),
         r.from # Nobody => caller[r.from].pc = "waiting"
  PROVE  Owned'
<1>1. /\ sendq \in Seq(Requests) /\ ctlq \in Seq(Requests)
      /\ OwnedBy(caller, sendq, ctlq, actor.cur.from)
  BY DEF Shape, Owned
<1>2. actor.cur.from = Nobody
  BY DEF Shape, Rested, NoRequest
<1>3. CASE Expired(r)
  <2>1. Answered({r.from}) /\ actor'.cur = actor.cur
    BY <1>3 DEF Take, Shape, ActorRecord
  <2>2. SameNamed(caller, caller', sendq') /\ SameNamed(caller, caller', ctlq')
    <3>1. /\ \A i \in 1 .. Len(sendq') : sendq'[i].from \notin {r.from} \ {Nobody}
          /\ \A i \in 1 .. Len(ctlq') : ctlq'[i].from \notin {r.from} \ {Nobody}
      BY DEF NotIn
    <3>2. QED
      BY <2>1, <3>1, AnsweredSame
  <2>3. OwnedBy(caller', sendq', ctlq', Nobody)
    <3>1. NotIn(sendq', Nobody) /\ NotIn(ctlq', Nobody)
      BY NobodyNotIn
    <3>2. Nobody # Nobody => caller'[Nobody].pc = "waiting"
      OBVIOUS
    <3>3. QED
      BY <1>1, <2>2, <3>1, <3>2, OwnedShrinks, ZenonT(60)
  <2>4. QED
    BY <1>2, <2>1, <2>3 DEF Owned
<1>4. CASE ~Expired(r)
  <2>1. caller' = caller /\ actor'.cur = r
    BY <1>4 DEF Take
  <2>2. SameNamed(caller, caller', sendq') /\ SameNamed(caller, caller', ctlq')
    BY <2>1 DEF SameNamed
  <2>3. OwnedBy(caller', sendq', ctlq', r.from)
    BY <1>1, <2>1, <2>2, OwnedShrinks
  <2>4. QED
    BY <2>1, <2>3 DEF Owned
<1>5. QED
  BY <1>3, <1>4

LEMMA OwnedTakes ==
  ASSUME Shape, Owned, TakeSend \/ TakeControl PROVE Owned'
<1>1. /\ sendq \in Seq(Requests) /\ ctlq \in Seq(Requests)
      /\ OwnedBy(caller, sendq, ctlq, actor.cur.from)
  BY DEF Shape, Owned
<1>2. CASE TakeSend
  <2>1. /\ sendq # << >> /\ sendq' = Tail(sendq) /\ ctlq' = ctlq /\ actor.pc = "recv"
        /\ \E burst : Take(Head(sendq), burst)
    BY <1>2 DEF TakeSend, SendsTurn
  <2>2. Head(sendq) \in Requests /\ Head(sendq) = sendq[1] /\ sendq' \in Seq(Requests)
    BY <1>1, <2>1, TailType
  <2>3. Remains(sendq, sendq', 1) /\ Remains(ctlq, ctlq', 0)
    BY <1>1, <2>1, RemainsTail, RemainsSelf
  <2>4. /\ NotIn(sendq', Head(sendq).from) /\ NotIn(ctlq', Head(sendq).from)
        /\ Head(sendq).from # Nobody => caller[Head(sendq).from].pc = "waiting"
    BY <1>1, <2>1, <2>2, HeadIsSole
  <2>5. QED
    BY <1>1, <2>1, <2>2, <2>3, <2>4, OwnedTake
<1>3. CASE TakeControl
  <2>1. /\ ctlq # << >> /\ ctlq' = Tail(ctlq) /\ sendq' = sendq /\ actor.pc = "recv"
        /\ Take(Head(ctlq), 0)
    BY <1>3 DEF TakeControl
  <2>2. Head(ctlq) \in Requests /\ Head(ctlq) = ctlq[1] /\ ctlq' \in Seq(Requests)
    BY <1>1, <2>1, TailType
  <2>3. Remains(sendq, sendq', 0) /\ Remains(ctlq, ctlq', 1)
    BY <1>1, <2>1, RemainsTail, RemainsSelf
  <2>4. /\ NotIn(sendq', Head(ctlq).from) /\ NotIn(ctlq', Head(ctlq).from)
        /\ Head(ctlq).from # Nobody => caller[Head(ctlq).from].pc = "waiting"
    BY <1>1, <2>1, <2>2, HeadIsSole
  <2>5. QED
    BY <1>1, <2>1, <2>2, <2>3, <2>4, OwnedTake
<1>4. QED
  BY <1>2, <1>3

LEMMA OwnedSecond ==
  ASSUME Shape, Owned, Second PROVE Owned'
<1> DEFINE h == actor.cur.from
<1>1. /\ sendq \in Seq(Requests) /\ ctlq \in Seq(Requests)
      /\ OwnedBy(caller, sendq, ctlq, h) /\ h \in Callers \cup {Nobody}
  BY DEF Shape, Owned, ActorRecord, Requests
<1>2. /\ sendq' = AgedIn(sendq) /\ ctlq' = AgedIn(ctlq) /\ actor' = actor
  BY DEF Second
<1>3. \A c \in Callers :
        /\ caller[c].pc = "waiting" => /\ caller'[c].pc = "waiting"
                                       /\ caller'[c].wait = Older(caller[c].wait)
        /\ caller[c].wait \in Ages
  <2>1. \A c \in Callers : caller[c] \in CallerRecord
    BY DEF Shape
  <2>2. \A c \in Callers : caller[c].pc = "waiting" =>
          caller'[c] = [caller[c] EXCEPT !.wait = Older(@)]
    BY DEF Second
  <2>3. QED
    BY <2>1, <2>2 DEF CallerRecord
<1>4. \A m, n \in Ages : m <= n => Older(m) <= Older(n)
  BY AgesType DEF Older, Ages
<1>5. ASSUME NEW q \in Seq(Requests), Claimed(caller, q) PROVE Claimed(caller', AgedIn(q))
  <2>1. /\ Len(AgedIn(q)) = Len(q)
        /\ \A i \in 1 .. Len(q) : /\ AgedIn(q)[i].age = Older(q[i].age)
                                  /\ AgedIn(q)[i].from = q[i].from
    BY AgedType
  <2>2. \A i \in 1 .. Len(q) : q[i].age \in Ages /\ q[i].from \in Callers \cup {Nobody}
    <3>1. \A i \in 1 .. Len(q) : q[i] \in Requests
      OBVIOUS
    <3>2. QED
      BY <3>1 DEF Requests
  <2>3. SUFFICES ASSUME NEW i \in 1 .. Len(q), q[i].from # Nobody
                 PROVE  /\ caller'[q[i].from].pc = "waiting"
                        /\ caller'[q[i].from].wait <= AgedIn(q)[i].age
    BY <2>1 DEF Claimed
  <2>4. /\ q[i].from \in Callers /\ caller[q[i].from].pc = "waiting"
        /\ caller[q[i].from].wait <= q[i].age
    BY <1>5, <2>2, <2>3 DEF Claimed
  <2>5. QED
    BY <1>3, <1>4, <2>1, <2>2, <2>4
<1>6. Claimed(caller', sendq') /\ Claimed(caller', ctlq')
  BY <1>1, <1>2, <1>5 DEF OwnedBy
<1>7. h # Nobody => caller'[h].pc = "waiting"
  BY <1>1, <1>3 DEF OwnedBy
<1>8. \A q \in Seq(Requests) :
        /\ Len(AgedIn(q)) = Len(q)
        /\ \A i \in 1 .. Len(q) : AgedIn(q)[i].from = q[i].from
  BY AgedType
<1>9. /\ Apart(sendq') /\ Apart(ctlq') /\ Foreign(sendq', ctlq')
      /\ NotIn(sendq', h) /\ NotIn(ctlq', h)
  <2>1. /\ Len(sendq') = Len(sendq) /\ Len(ctlq') = Len(ctlq)
        /\ \A i \in 1 .. Len(sendq) : sendq'[i].from = sendq[i].from
        /\ \A i \in 1 .. Len(ctlq) : ctlq'[i].from = ctlq[i].from
    BY <1>1, <1>2, <1>8
  <2>2. Apart(sendq') /\ Apart(ctlq')
    BY <1>1, <2>1 DEF OwnedBy, Apart
  <2>3. Foreign(sendq', ctlq')
    BY <1>1, <2>1 DEF OwnedBy, Foreign
  <2>4. NotIn(sendq', h) /\ NotIn(ctlq', h)
    BY <1>1, <2>1 DEF OwnedBy, NotIn
  <2>5. QED
    BY <2>2, <2>3, <2>4
<1> HIDE DEF h
<1>10. OwnedBy(caller', sendq', ctlq', h)
  BY <1>6, <1>7, <1>9 DEF OwnedBy
<1>11. QED
  BY <1>2, <1>10 DEF Owned, h

LEMMA OwnedStep ==
  ASSUME Shape, Owned, [Next]_vars PROVE Owned'
<1>1. ASSUME NEW c \in Callers, CallerStep(c) PROVE Owned'
  BY <1>1, OwnedRequest, OwnedEnqueue, OwnedGiveUp DEF CallerStep
<1>2. CASE EndOfLanes \/ ShutdownAtOnce
  BY <1>2, OwnedStopping DEF EndOfLanes, ShutdownAtOnce
<1>3. CASE /\ UNCHANGED <<caller, sendq, ctlq>> /\ actor'.cur = actor.cur
  BY <1>3 DEF Owned
<1>4. CASE OpenSession
  <2>1. CASE Reply
    BY <2>1, OwnedReply DEF Reply, lanes, Shape, ActorRecord
  <2>2. CASE actor' = [actor EXCEPT !.pc = "perform"] /\ UNCHANGED <<caller, lanes>>
    BY <1>3, <2>2 DEF Shape, ActorRecord, lanes
  <2>3. QED
    BY <1>4, <2>1, <2>2 DEF OpenSession
<1>5. CASE UseSession
  BY <1>3, <1>5 DEF UseSession, Shape, ActorRecord, lanes
<1>6. CASE Perform
  BY <1>6, OwnedReply DEF Perform, Reply, lanes, Shape, ActorRecord
<1>7. CASE UNCHANGED vars
  BY <1>3, <1>7 DEF vars
<1>8. QED
  BY <1>1, <1>2, <1>4, <1>5, <1>6, <1>7, OwnedDrop, OwnedSecond, OwnedTakes
  DEF Next, ActorStep

LEMMA OwnedHolds == Spec => []Owned
BY OwnedInit, OwnedStep, ShapeHolds, PTL DEF Spec

-----------------------------------------------------------------------------
(* What is in the lanes is what was counted for them.                      *)

LEMMA KindsKept ==
  ASSUME NEW q \in Seq(Requests), NEW K, \A i \in 1 .. Len(q) : q[i].kind \in K
  PROVE  /\ \A r \in Requests : r.kind \in K =>
              \A i \in 1 .. Len(Append(q, r)) : Append(q, r)[i].kind \in K
         /\ q # << >> => \A i \in 1 .. Len(Tail(q)) : Tail(q)[i].kind \in K
         /\ \A c : \A i \in 1 .. Len(DisownedIn(c, q)) : DisownedIn(c, q)[i].kind \in K
         /\ \A i \in 1 .. Len(AgedIn(q)) : AgedIn(q)[i].kind \in K
<1>1. \A i \in 1 .. Len(q) : q[i] \in Requests
  OBVIOUS
<1>2. ASSUME NEW r \in Requests, r.kind \in K, NEW i \in 1 .. Len(Append(q, r))
      PROVE  Append(q, r)[i].kind \in K
  <2>1. (i \in 1 .. Len(q) /\ Append(q, r)[i] = q[i]) \/ Append(q, r)[i] = r
    OBVIOUS
  <2>2. QED
    BY <1>2, <2>1
<1>3. ASSUME q # << >>, NEW i \in 1 .. Len(Tail(q)) PROVE Tail(q)[i].kind \in K
  BY <1>3, TailType
<1>4. ASSUME NEW c, NEW i \in 1 .. Len(DisownedIn(c, q)) PROVE DisownedIn(c, q)[i].kind \in K
  BY <1>1, DisownedType
<1>5. ASSUME NEW i \in 1 .. Len(AgedIn(q)) PROVE AgedIn(q)[i].kind \in K
  <2>1. i \in 1 .. Len(q) /\ AgedIn(q)[i] = [q[i] EXCEPT !.age = Older(@)]
    BY AgedType DEF AgedIn
  <2>2. AgedIn(q)[i].kind = q[i].kind
    BY <1>1, <2>1 DEF Requests
  <2>3. QED
    BY <2>1, <2>2
<1>6. QED
  BY <1>2, <1>3, <1>4, <1>5

\* Every request is in the lane of its kind.
Sorted ==
  /\ \A i \in 1 .. Len(sendq) : sendq[i].kind \in SendKinds
  /\ \A i \in 1 .. Len(ctlq) : ctlq[i].kind \in ControlKinds

LEMMA SortedStep ==
  ASSUME Shape, Sorted, [Next]_vars PROVE Sorted'
<1>1. sendq \in Seq(Requests) /\ ctlq \in Seq(Requests) /\ NoRequest \in Requests
  BY NoRequestType DEF Shape
<1>2. CASE UNCHANGED <<sendq, ctlq>>
  BY <1>2 DEF Sorted
<1>3. ASSUME NEW c \in Callers, Enqueue(c) PROVE Sorted'
  <2>1. caller[c].req \in Requests
    BY DEF Shape, CallerRecord
  <2>2. CASE caller[c].req.kind \in SendKinds
    <3>1. sendq' = Append(sendq, caller[c].req) /\ ctlq' = ctlq
      BY <1>3, <2>2 DEF Enqueue
    <3>2. QED
      BY <1>1, <2>1, <2>2, <3>1, KindsKept DEF Sorted
  <2>3. CASE caller[c].req.kind \notin SendKinds
    <3>1. ctlq' = Append(ctlq, caller[c].req) /\ sendq' = sendq
      BY <1>3, <2>3 DEF Enqueue
    <3>2. caller[c].req.kind \in ControlKinds
      BY <2>1, <2>3 DEF Requests
    <3>3. QED
      BY <1>1, <2>1, <3>1, <3>2, KindsKept DEF Sorted
  <2>4. QED
    BY <2>2, <2>3
<1>4. ASSUME NEW c \in Callers, GiveUp(c) PROVE Sorted'
  BY <1>1, <1>4, KindsKept DEF Sorted, GiveUp
<1>5. CASE Drop
  <2>1. NoRequest.kind \in SendKinds
    BY DEF NoRequest, SendKinds
  <2>2. QED
    BY <1>1, <1>5, <2>1, KindsKept DEF Sorted, Drop
<1>6. CASE TakeSend
  BY <1>1, <1>6, KindsKept DEF Sorted, TakeSend, SendsTurn
<1>7. CASE TakeControl
  BY <1>1, <1>7, KindsKept DEF Sorted, TakeControl
<1>8. CASE EndOfLanes \/ ShutdownAtOnce
  <2>1. Len(sendq') = 0 /\ Len(ctlq') = 0
    BY <1>8 DEF EndOfLanes, ShutdownAtOnce, Stopping
  <2>2. QED
    BY <2>1 DEF Sorted
<1>9. CASE Second
  BY <1>1, <1>9, KindsKept DEF Sorted, Second
<1>10. ASSUME NEW c \in Callers, Request(c) \/ Refused(c) PROVE Sorted'
  BY <1>2, <1>10 DEF Request, Refused, lanes
<1>11. CASE OpenSession \/ UseSession \/ Perform
  BY <1>2, <1>11 DEF OpenSession, UseSession, Perform, Reply, lanes
<1>12. CASE UNCHANGED vars
  BY <1>2, <1>12 DEF vars
<1>13. QED
  BY <1>3, <1>4, <1>5, <1>6, <1>7, <1>8, <1>9, <1>10, <1>11, <1>12
  DEF Next, CallerStep, ActorStep

\* The callers in f whose request is counted for the lane l.
AtCounter(f, l) == {c \in Callers : f[c].pc = "counted" /\ Lane(f[c].req.kind) = l}

LEMMA CountingIs == \A l : Counting(l) = Cardinality(AtCounter(caller, l))
BY DEF Counting, AtCounter

LEMMA AtCounterFinite ==
  ASSUME NEW f, NEW l
  PROVE  IsFiniteSet(AtCounter(f, l)) /\ Cardinality(AtCounter(f, l)) \in Nat
BY KindAssumption, FS_Subset, FS_CardinalityType DEF AtCounter

LEMMA ComesToCounter ==
  ASSUME NEW f, NEW g, NEW c \in Callers, f[c].pc # "counted", g[c].pc = "counted",
         \A b \in Callers : b # c => g[b] = f[b], NEW l
  PROVE  Cardinality(AtCounter(g, l)) =
           Cardinality(AtCounter(f, l)) + (IF Lane(g[c].req.kind) = l THEN 1 ELSE 0)
<1>1. CASE Lane(g[c].req.kind) = l
  <2>1. AtCounter(g, l) = AtCounter(f, l) \cup {c} /\ c \notin AtCounter(f, l)
    BY <1>1 DEF AtCounter
  <2>2. QED
    BY <1>1, <2>1, AtCounterFinite, FS_AddElement
<1>2. CASE Lane(g[c].req.kind) # l
  <2>1. AtCounter(g, l) = AtCounter(f, l)
    BY <1>2 DEF AtCounter
  <2>2. QED
    BY <1>2, <2>1, AtCounterFinite
<1>3. QED
  BY <1>1, <1>2

LEMMA LeavesCounter ==
  ASSUME NEW f, NEW g, NEW c \in Callers, f[c].pc = "counted", g[c].pc # "counted",
         \A b \in Callers : b # c => g[b] = f[b], NEW l
  PROVE  /\ Cardinality(AtCounter(g, l)) \in Nat
         /\ Cardinality(AtCounter(g, l)) =
              Cardinality(AtCounter(f, l)) - (IF Lane(f[c].req.kind) = l THEN 1 ELSE 0)
<1> DEFINE m == Cardinality(AtCounter(f, l))
           n == Cardinality(AtCounter(g, l))
<1>1. m \in Nat /\ n \in Nat
  BY AtCounterFinite
<1>2. m = n + (IF Lane(f[c].req.kind) = l THEN 1 ELSE 0)
  BY ComesToCounter
<1> HIDE DEF m, n
<1>3. n = m - (IF Lane(f[c].req.kind) = l THEN 1 ELSE 0)
  <2>1. CASE Lane(f[c].req.kind) = l
    BY <1>1, <1>2, <2>1
  <2>2. CASE Lane(f[c].req.kind) # l
    BY <1>1, <1>2, <2>2
  <2>3. QED
    BY <2>1, <2>2
<1>4. QED
  BY <1>1, <1>3 DEF m, n

\* f and g agree on who is at the counter, and with what.
SameCounted(before, after) ==
  IF before.pc = "counted" THEN after.pc = "counted" /\ after.req.kind = before.req.kind
                           ELSE after.pc # "counted"

LEMMA StaysAtCounter ==
  ASSUME NEW f, NEW g, \A c \in Callers : SameCounted(f[c], g[c])
  PROVE  \A l : Cardinality(AtCounter(g, l)) = Cardinality(AtCounter(f, l))
<1>1. \A l : AtCounter(g, l) = AtCounter(f, l)
  BY DEF AtCounter, SameCounted
<1>2. QED
  BY <1>1

\* Nobody who is answered is at the counter.
LEMMA AnsweredCounts ==
  ASSUME Shape, NEW who, Answered(who),
         \A c \in Callers : c \in who => caller[c].pc = "waiting"
  PROVE  \A l : Counting(l)' = Counting(l)
<1>1. \A c \in Callers : SameCounted(caller[c], caller'[c])
  BY DEF Answered, Idle, SameCounted
<1>2. \A l : Cardinality(AtCounter(caller', l)) = Cardinality(AtCounter(caller, l))
  BY <1>1, StaysAtCounter
<1>3. QED
  BY <1>2 DEF Counting, AtCounter

LEMMA SortedHolds == Spec => []Sorted
<1>1. Init => Sorted
  <2>1. Init => Len(sendq) = 0 /\ Len(ctlq) = 0
    BY DEF Init
  <2>2. QED
    BY <2>1 DEF Sorted
<1>2. QED
  BY <1>1, SortedStep, ShapeHolds, PTL DEF Spec

-----------------------------------------------------------------------------
(* The counters.                                                           *)

LEMMA Numbers ==
  ASSUME Shape, NoDepthNegative
  PROVE  /\ \A l \in {"all", "send", "control"} : depth[l] \in Nat
         /\ \A n \in {"enqueued", "completed", "failed", "expired"} :
              total[n] \in 0 .. Modulus - 1 /\ total[n] \in Nat
         /\ InHand \in {0, 1} /\ Reckoned \in Nat
         /\ Len(sendq) \in Nat /\ Len(ctlq) \in Nat
         /\ SendsComing \in Nat /\ ControlsComing \in Nat
<1>1. \A l \in {"all", "send", "control"} : depth[l] \in Nat
  BY DEF Shape, NoDepthNegative
<1>2. \A n \in {"enqueued", "completed", "failed", "expired"} :
        total[n] \in 0 .. Modulus - 1 /\ total[n] \in Nat
  BY DEF Shape
<1>3. InHand \in {0, 1}
  BY DEF InHand
<1>4. Reckoned \in Nat
  BY <1>1, <1>2, <1>3 DEF Reckoned
<1>5. Len(sendq) \in Nat /\ Len(ctlq) \in Nat
  BY DEF Shape
<1>6. SendsComing \in Nat /\ ControlsComing \in Nat
  BY CountingIs, AtCounterFinite DEF SendsComing, ControlsComing
<1>7. QED
  BY <1>1, <1>2, <1>3, <1>4, <1>5, <1>6

LEMMA AccountsInit == Init => Accounts
<1> SUFFICES ASSUME Init PROVE Accounts
  OBVIOUS
<1>1. \A l : Counting(l) = 0
  <2>1. \A l : AtCounter(caller, l) = {}
    BY DEF Init, AtCounter, Idle
  <2>2. QED
    BY <2>1, CountingIs, FS_EmptySet
<1>2. NoDepthNegative /\ DepthsFit
  BY <1>1 DEF Init, NoDepthNegative, DepthsFit, SendsComing, ControlsComing
<1>3. Reckoned = 0
  BY DEF Init, Reckoned, InHand
<1>4. 0 = Modulus * 0 + 0 /\ (Modulus * 0 + 0) % Modulus = 0
  BY ModUnique
<1>5. QED
  BY <1>2, <1>3, <1>4 DEF Init, Accounts, TotalsFit

\* A step that counts nothing.
LEMMA AccountsKept ==
  ASSUME Accounts, UNCHANGED <<depth, total, dropped>>, actor'.pc = actor.pc \/ InHand' = InHand,
         (actor'.pc = "stopped") = (actor.pc = "stopped"),
         Len(sendq') = Len(sendq), Len(ctlq') = Len(ctlq),
         \A l : Counting(l)' = Counting(l)
  PROVE  Accounts'
<1>1. InHand' = InHand
  BY DEF InHand
<1>2. Reckoned' = Reckoned
  BY <1>1 DEF Reckoned
<1>3. TotalsFit'
  BY <1>2 DEF Accounts, TotalsFit
<1>4. NoDepthNegative' /\ DepthsFit'
  BY DEF Accounts, NoDepthNegative, DepthsFit, SendsComing, ControlsComing
<1>5. QED
  BY <1>3, <1>4 DEF Accounts

LEMMA AccountsRequest ==
  ASSUME Shape, Accounts, NEW c \in Callers, Request(c) PROVE Accounts'
<1>1. PICK kind \in SendKinds \cup ControlKinds :
        /\ caller'[c].pc = "counted" /\ caller'[c].req.kind = kind
        /\ depth' = [depth EXCEPT !["all"] = @ + 1, ![Lane(kind)] = @ + 1]
        /\ total' = [total EXCEPT !["enqueued"] = Plus1(@)]
  <2>1. PICK kind \in traffic[c], id \in Identities \cup {NoIdentity} :
          /\ caller' = [caller EXCEPT ![c] =
                [pc |-> "counted", wait |-> 0,
                 req |-> [kind |-> kind, from |-> c, id |-> id, age |-> 0]]]
          /\ depth' = [depth EXCEPT !["all"] = @ + 1, ![Lane(kind)] = @ + 1]
          /\ total' = [total EXCEPT !["enqueued"] = Plus1(@)]
    BY DEF Request
  <2>2. kind \in SendKinds \cup ControlKinds
    BY KindAssumption DEF Shape
  <2>3. caller'[c].pc = "counted" /\ caller'[c].req.kind = kind
    BY <2>1 DEF Shape
  <2>4. QED
    BY <2>1, <2>2, <2>3
<1>2. /\ caller[c].pc = "idle" /\ \A b \in Callers : b # c => caller'[b] = caller[b]
      /\ UNCHANGED <<sendq, ctlq, actor, dropped>> /\ ~dropped
  BY DEF Request, Shape, lanes
<1>3. \A l : Counting(l)' = Counting(l) + (IF Lane(kind) = l THEN 1 ELSE 0)
  <2>1. \A l : Cardinality(AtCounter(caller', l)) =
                 Cardinality(AtCounter(caller, l)) + (IF Lane(kind) = l THEN 1 ELSE 0)
    BY <1>1, <1>2, ComesToCounter
  <2>2. QED
    BY <2>1 DEF Counting, AtCounter
<1>4. /\ depth'["all"] = depth["all"] + 1
      /\ depth'["send"] = depth["send"] + (IF Lane(kind) = "send" THEN 1 ELSE 0)
      /\ depth'["control"] = depth["control"] + (IF Lane(kind) = "control" THEN 1 ELSE 0)
  BY <1>1 DEF Shape, Lane
<1>5. NoDepthNegative' /\ DepthsFit'
  <2>1. Lane(kind) \in {"send", "control"}
    BY DEF Lane
  <2>2. /\ depth["all"] \in Nat /\ depth["send"] \in Nat /\ depth["control"] \in Nat
        /\ SendsComing \in Nat /\ ControlsComing \in Nat
        /\ Len(sendq) \in Nat /\ Len(ctlq) \in Nat
    BY Numbers DEF Accounts
  <2>3. NoDepthNegative'
    BY <1>4, <2>2 DEF NoDepthNegative
  <2>4. /\ SendsComing' = SendsComing + (IF Lane(kind) = "send" THEN 1 ELSE 0)
        /\ ControlsComing' = ControlsComing + (IF Lane(kind) = "control" THEN 1 ELSE 0)
    BY <1>3 DEF SendsComing, ControlsComing
  <2>5. DepthsFit
    BY DEF Accounts
  <2>6. DepthsFit'
    BY <1>2, <1>4, <2>1, <2>2, <2>4, <2>5, SMTT(30) DEF DepthsFit
  <2>7. QED
    BY <2>3, <2>6
<1>6. Reckoned' = Reckoned + 1 /\ Reckoned \in Nat
  <2>1. /\ total'["completed"] = total["completed"] /\ total'["failed"] = total["failed"]
        /\ total'["expired"] = total["expired"] /\ InHand' = InHand
    BY <1>1, <1>2 DEF Shape, InHand
  <2>2. /\ \A n \in {"completed", "failed", "expired"} : total[n] \in Nat
        /\ depth["all"] \in Nat /\ InHand \in {0, 1} /\ Reckoned \in Nat
    BY Numbers DEF Accounts
  <2>3. QED
    BY <1>4, <2>1, <2>2 DEF Reckoned
<1>7. total'["enqueued"] = Plus1(total["enqueued"]) /\ total["enqueued"] = Reckoned % Modulus
  BY <1>1, <1>2 DEF Shape, Accounts, TotalsFit
<1>8. total'["enqueued"] = Reckoned' % Modulus
  BY <1>6, <1>7, ModPlusOne DEF Plus1
<1>9. QED
  BY <1>5, <1>8 DEF Accounts, TotalsFit

LEMMA AccountsRefused ==
  ASSUME Shape, Accounts, NEW c \in Callers, Refused(c) PROVE Accounts'
<1> DEFINE kind == caller[c].req.kind
<1>1. /\ depth' = [depth EXCEPT !["all"] = @ - 1, ![Lane(kind)] = @ - 1]
      /\ total' = [total EXCEPT !["enqueued"] = (@ + Modulus - 1) % Modulus]
  BY DEF Refused, RolledBack
<1>2. /\ caller[c].pc = "counted" /\ caller'[c].pc # "counted"
      /\ \A b \in Callers : b # c => caller'[b] = caller[b]
      /\ UNCHANGED <<sendq, ctlq, actor, dropped>> /\ ~dropped
  BY DEF Refused, Shape, lanes, Clerk, Idle
<1>3. \A l : /\ Counting(l)' = Counting(l) - (IF Lane(kind) = l THEN 1 ELSE 0)
             /\ Counting(l)' \in Nat
  <2>1. \A l : /\ Cardinality(AtCounter(caller', l)) =
                   Cardinality(AtCounter(caller, l)) - (IF Lane(kind) = l THEN 1 ELSE 0)
               /\ Cardinality(AtCounter(caller', l)) \in Nat
    BY <1>2, LeavesCounter
  <2>2. QED
    BY <2>1 DEF Counting, AtCounter
<1>4. /\ depth'["all"] = depth["all"] - 1
      /\ depth'["send"] = depth["send"] - (IF Lane(kind) = "send" THEN 1 ELSE 0)
      /\ depth'["control"] = depth["control"] - (IF Lane(kind) = "control" THEN 1 ELSE 0)
  BY <1>1, SMTT(30) DEF Shape, Lane
<1>6. Lane(kind) \in {"send", "control"}
  BY DEF Lane
<1>7. DepthsFit' /\ NoDepthNegative' /\ depth["all"] >= 1
  <2>1. /\ depth["all"] \in Nat /\ depth["send"] \in Nat /\ depth["control"] \in Nat
        /\ SendsComing \in Nat /\ ControlsComing \in Nat
        /\ Len(sendq) \in Nat /\ Len(ctlq) \in Nat
    BY Numbers DEF Accounts
  <2>2. /\ SendsComing' = SendsComing - (IF Lane(kind) = "send" THEN 1 ELSE 0)
        /\ ControlsComing' = ControlsComing - (IF Lane(kind) = "control" THEN 1 ELSE 0)
        /\ SendsComing' \in Nat /\ ControlsComing' \in Nat
    BY <1>3 DEF SendsComing, ControlsComing
  <2>3. DepthsFit
    BY DEF Accounts
  <2>4. /\ depth["all"] >= 1 /\ depth'["all"] >= 0
        /\ depth'["send"] >= 0 /\ depth'["control"] >= 0
    BY <1>2, <1>4, <1>6, <2>1, <2>2, <2>3 DEF DepthsFit
  <2>5. DepthsFit'
    <3>0. sendq' = sendq /\ ctlq' = ctlq /\ actor' = actor /\ dropped' = dropped /\ ~dropped
      BY <1>2
    <3>1. CASE Lane(kind) = "send"
      <4>1. /\ depth'["all"] = depth["all"] - 1 /\ depth'["send"] = depth["send"] - 1
            /\ depth'["control"] = depth["control"]
            /\ SendsComing' = SendsComing - 1 /\ ControlsComing' = ControlsComing
        BY <1>4, <2>1, <2>2, <3>1
      <4>2. QED
        BY <2>1, <2>2, <2>3, <3>0, <4>1 DEF DepthsFit
    <3>2. CASE Lane(kind) = "control"
      <4>1. /\ depth'["all"] = depth["all"] - 1 /\ depth'["send"] = depth["send"]
            /\ depth'["control"] = depth["control"] - 1
            /\ SendsComing' = SendsComing /\ ControlsComing' = ControlsComing - 1
        BY <1>4, <2>1, <2>2, <3>2
      <4>2. QED
        BY <2>1, <2>2, <2>3, <3>0, <4>1 DEF DepthsFit
    <3>3. QED
      BY <1>6, <3>1, <3>2
  <2>6. QED
    BY <2>4, <2>5 DEF NoDepthNegative
<1>9. Reckoned' = Reckoned - 1 /\ Reckoned \in Nat \ {0}
  <2>1. /\ total'["completed"] = total["completed"] /\ total'["failed"] = total["failed"]
        /\ total'["expired"] = total["expired"] /\ InHand' = InHand
    BY <1>1, <1>2 DEF Shape, InHand
  <2>2. /\ \A n \in {"completed", "failed", "expired"} : total[n] \in Nat
        /\ depth["all"] \in Nat /\ InHand \in {0, 1} /\ Reckoned \in Nat
    BY Numbers DEF Accounts
  <2>3. QED
    BY <1>4, <1>7, <2>1, <2>2 DEF Reckoned
<1>10. /\ total'["enqueued"] = (total["enqueued"] + Modulus - 1) % Modulus
       /\ total["enqueued"] = Reckoned % Modulus
  BY <1>1, <1>2 DEF Shape, Accounts, TotalsFit
<1>11. total'["enqueued"] = Reckoned' % Modulus
  BY <1>9, <1>10, ModMinusOne
<1>12. QED
  BY <1>7, <1>11 DEF Accounts, TotalsFit

LEMMA AccountsEnqueue ==
  ASSUME Shape, Accounts, NEW c \in Callers, Enqueue(c) PROVE Accounts'
<1> DEFINE kind == caller[c].req.kind
<1>1. /\ caller[c].pc = "counted" /\ caller'[c].pc # "counted"
      /\ \A b \in Callers : b # c => caller'[b] = caller[b]
      /\ UNCHANGED <<depth, total, actor, dropped>> /\ actor.pc # "stopped"
  BY DEF Enqueue, Shape, CallerRecord
<1>2. \A l : /\ Counting(l)' = Counting(l) - (IF Lane(kind) = l THEN 1 ELSE 0)
             /\ Counting(l)' \in Nat
  <2>1. \A l : /\ Cardinality(AtCounter(caller', l)) =
                   Cardinality(AtCounter(caller, l)) - (IF Lane(kind) = l THEN 1 ELSE 0)
               /\ Cardinality(AtCounter(caller', l)) \in Nat
    BY <1>1, LeavesCounter, ZenonT(60)
  <2>2. QED
    BY <2>1 DEF Counting, AtCounter
<1>4. /\ Len(sendq') = Len(sendq) + (IF Lane(kind) = "send" THEN 1 ELSE 0)
      /\ Len(ctlq') = Len(ctlq) + (IF Lane(kind) = "control" THEN 1 ELSE 0)
  BY SMTT(30) DEF Enqueue, Lane, Shape
<1>5. NoDepthNegative' /\ DepthsFit'
  <2>1. /\ depth["all"] \in Nat /\ depth["send"] \in Nat /\ depth["control"] \in Nat
        /\ SendsComing \in Nat /\ ControlsComing \in Nat
        /\ Len(sendq) \in Nat /\ Len(ctlq) \in Nat
    BY Numbers DEF Accounts
  <2>2. /\ SendsComing' = SendsComing - (IF Lane(kind) = "send" THEN 1 ELSE 0)
        /\ ControlsComing' = ControlsComing - (IF Lane(kind) = "control" THEN 1 ELSE 0)
        /\ SendsComing' \in Nat /\ ControlsComing' \in Nat
    BY <1>2 DEF SendsComing, ControlsComing
  <2>3. DepthsFit /\ NoDepthNegative
    BY DEF Accounts
  <2>4. DepthsFit'
    <3>1. CASE Lane(kind) = "send"
      <4>1. /\ Len(sendq') = Len(sendq) + 1 /\ Len(ctlq') = Len(ctlq)
            /\ SendsComing' = SendsComing - 1 /\ ControlsComing' = ControlsComing
        BY <1>4, <2>1, <2>2, <3>1
      <4>2. QED
        BY <1>1, <2>1, <2>2, <2>3, <4>1 DEF DepthsFit
    <3>2. CASE Lane(kind) = "control"
      <4>1. /\ Len(sendq') = Len(sendq) /\ Len(ctlq') = Len(ctlq) + 1
            /\ SendsComing' = SendsComing /\ ControlsComing' = ControlsComing - 1
        BY <1>4, <2>1, <2>2, <3>2
      <4>2. QED
        BY <1>1, <2>1, <2>2, <2>3, <4>1 DEF DepthsFit
    <3>3. QED
      BY <3>1, <3>2 DEF Lane
  <2>5. QED
    BY <1>1, <2>3, <2>4 DEF NoDepthNegative
<1>6. Reckoned' = Reckoned
  BY <1>1 DEF Reckoned, InHand
<1>7. QED
  BY <1>1, <1>5, <1>6 DEF Accounts, TotalsFit

\* A request is taken out of the lane it was counted for: the shutdown of the dropped
\* handle may find the depths at zero.
LEMMA AccountsTake ==
  ASSUME Shape, Accounts, actor.pc = "recv", NEW r \in Requests, NEW burst, Take(r, burst),
         r.from \in Callers => caller[r.from].pc = "waiting",
         \/ /\ Lane(r.kind) = "send" /\ Len(sendq) >= 1
            /\ Len(sendq') = Len(sendq) - 1 /\ Len(ctlq') = Len(ctlq)
         \/ /\ Lane(r.kind) = "control" /\ Len(ctlq) >= 1
            /\ Len(sendq') = Len(sendq) /\ Len(ctlq') = Len(ctlq) - 1
  PROVE  Accounts'
<1>1. /\ depth["all"] \in Nat /\ depth["send"] \in Nat /\ depth["control"] \in Nat
      /\ SendsComing \in Nat /\ ControlsComing \in Nat
      /\ Len(sendq) \in Nat /\ Len(ctlq) \in Nat
      /\ total["completed"] \in Nat /\ total["failed"] \in Nat
      /\ total["expired"] \in 0 .. Modulus - 1 /\ total["expired"] \in Nat
  BY Numbers DEF Accounts
<1>2. /\ depth'["all"] = Minus1(depth["all"])
      /\ Lane(r.kind) = "send" =>
           /\ depth'["send"] = Minus1(depth["send"]) /\ depth'["control"] = depth["control"]
      /\ Lane(r.kind) = "control" =>
           /\ depth'["control"] = Minus1(depth["control"]) /\ depth'["send"] = depth["send"]
  <2>1. depth' = [depth EXCEPT !["all"] = Minus1(@), ![Lane(r.kind)] = Minus1(@)]
    BY DEF Take, CountedOut
  <2>2. QED
    BY <2>1 DEF Shape
<1>3. /\ Minus1(depth["all"]) \in Nat /\ (depth["all"] >= 1 => Minus1(depth["all"]) = depth["all"] - 1)
      /\ Minus1(depth["send"]) \in Nat
      /\ depth["send"] >= 1 => Minus1(depth["send"]) = depth["send"] - 1
      /\ Minus1(depth["control"]) \in Nat
      /\ depth["control"] >= 1 => Minus1(depth["control"]) = depth["control"] - 1
  BY <1>1, SMTT(30) DEF Minus1
<1>4. NoDepthNegative'
  <2>1. depth'["all"] \in Nat /\ depth'["send"] \in Nat /\ depth'["control"] \in Nat
    BY <1>1, <1>2, <1>3
  <2>2. QED
    BY <2>1 DEF NoDepthNegative
<1>5. SendsComing' = SendsComing /\ ControlsComing' = ControlsComing
  <2>1. CASE Expired(r)
    <3>1. Answered({r.from}) /\ \A c \in Callers : c \in {r.from} => caller[c].pc = "waiting"
      BY <2>1 DEF Take
    <3>2. \A l : Counting(l)' = Counting(l)
      BY <3>1, AnsweredCounts
    <3>3. QED
      BY <3>2 DEF SendsComing, ControlsComing
  <2>2. CASE ~Expired(r)
    BY <2>2 DEF Take, SendsComing, ControlsComing, Counting
  <2>3. QED
    BY <2>1, <2>2
<1>6. dropped' = dropped
  BY DEF Take
<1>7. ASSUME ~dropped PROVE DepthsFit' /\ depth["all"] >= 1 /\ depth'["all"] = depth["all"] - 1
  <2>1. /\ depth["all"] = depth["send"] + depth["control"]
        /\ depth["send"] = Len(sendq) + SendsComing
        /\ depth["control"] = Len(ctlq) + ControlsComing
    BY <1>7 DEF Accounts, DepthsFit
  <2>2. depth["all"] >= 1 /\ depth'["all"] = depth["all"] - 1
    <3>1. Len(sendq) >= 1 \/ Len(ctlq) >= 1
      OBVIOUS
    <3>2. depth["all"] >= 1
      BY <1>1, <2>1, <3>1
    <3>3. QED
      BY <1>2, <1>3, <3>2
  <2>3. CASE Lane(r.kind) = "send"
    <3>1. Len(sendq) >= 1 /\ Len(sendq') = Len(sendq) - 1 /\ Len(ctlq') = Len(ctlq)
      BY <2>3
    <3>2. depth'["send"] = depth["send"] - 1 /\ depth'["control"] = depth["control"]
      BY <1>1, <1>2, <1>3, <2>1, <2>3, <3>1
    <3>3. QED
      BY <1>1, <1>5, <2>1, <2>2, <3>1, <3>2 DEF DepthsFit
  <2>4. CASE Lane(r.kind) = "control"
    <3>1. Len(ctlq) >= 1 /\ Len(sendq') = Len(sendq) /\ Len(ctlq') = Len(ctlq) - 1
      BY <2>4
    <3>2. depth'["control"] = depth["control"] - 1 /\ depth'["send"] = depth["send"]
      BY <1>1, <1>2, <1>3, <2>1, <2>4, <3>1
    <3>3. QED
      BY <1>1, <1>5, <2>1, <2>2, <3>1, <3>2, SMTT(30) DEF DepthsFit
  <2>5. QED
    BY <2>2, <2>3, <2>4
<1>8. ASSUME ~dropped PROVE Reckoned' % Modulus = Reckoned % Modulus
                            /\ total'["enqueued"] = total["enqueued"]
  <2>1. InHand = 0 /\ depth'["all"] = depth["all"] - 1 /\ depth["all"] >= 1
    BY <1>7, <1>8 DEF InHand
  <2>2. CASE Expired(r)
    <3> DEFINE n == total["expired"]
               y == total["completed"] + total["failed"] + (depth["all"] - 1)
    <3>1. n \in 0 .. Modulus - 1 /\ y \in Nat
      BY <1>1, <2>1, SMTT(30)
    <3>2. /\ total'["expired"] = Plus1(n) /\ total'["enqueued"] = total["enqueued"]
          /\ total'["completed"] = total["completed"] /\ total'["failed"] = total["failed"]
          /\ InHand' = 0
      BY <2>2 DEF Take, Shape, InHand, ActorRecord
    <3>3. Reckoned' = Plus1(n) + y /\ Reckoned = n + 1 + y
      <4>1. Plus1(n) \in Nat
        <5>1. n \in Int
          BY <1>1
        <5>2. QED
          BY <5>1, Plus1Type
      <4>2. Reckoned = n + 1 + y
        <5>1. Reckoned = total["completed"] + total["failed"] + n + depth["all"] + 0
          BY <2>1 DEF Reckoned
        <5>2. n \in Nat /\ total["completed"] \in Nat /\ total["failed"] \in Nat
              /\ depth["all"] \in Nat
          BY <1>1
        <5>3. y + 1 = total["completed"] + total["failed"] + depth["all"] /\ y \in Nat
          BY <2>1, <5>2
        <5> HIDE DEF n, y
        <5>4. QED
          BY <5>1, <5>2, <5>3
      <4>3. Reckoned' = total["completed"] + total["failed"] + Plus1(n) + (depth["all"] - 1) + 0
        BY <2>1, <3>2 DEF Reckoned
      <4>4. Reckoned' = Plus1(n) + y
        <5> HIDE DEF n
        <5>1. QED
          BY <1>1, <2>1, <4>1, <4>3, SMTT(30)
      <4>5. QED
        BY <4>2, <4>4
    <3> HIDE DEF n, y
    <3>4. QED
      BY <3>1, <3>2, <3>3, ModWrap
  <2>3. CASE ~Expired(r)
    <3>1. total' = total /\ InHand' = 1
      BY <2>3 DEF Take, InHand
    <3>2. Reckoned' = Reckoned
      BY <1>1, <2>1, <3>1 DEF Reckoned
    <3>3. QED
      BY <3>1, <3>2
  <2>4. QED
    BY <2>2, <2>3
<1>9. DepthsFit' /\ TotalsFit'
  BY <1>6, <1>7, <1>8 DEF Accounts, TotalsFit, DepthsFit
<1>10. QED
  BY <1>4, <1>9 DEF Accounts

\* The request in hand is completed or has failed.
LEMMA AccountsCompleted ==
  ASSUME Shape, Accounts, NEW good \in BOOLEAN, Completed(good),
         actor.pc \in {"start", "perform"}, actor'.pc \in {"recv", "stopped"},
         UNCHANGED <<depth, dropped>>, \A l : Counting(l)' = Counting(l),
         actor'.pc = "recv" => Len(sendq') = Len(sendq) /\ Len(ctlq') = Len(ctlq)
  PROVE  Accounts'
<1>1. NoDepthNegative' /\ DepthsFit'
  BY DEF Accounts, NoDepthNegative, DepthsFit, SendsComing, ControlsComing
<1>2. /\ depth["all"] \in Nat /\ total["expired"] \in Nat
      /\ total["completed"] \in 0 .. Modulus - 1 /\ total["completed"] \in Nat
      /\ total["failed"] \in 0 .. Modulus - 1 /\ total["failed"] \in Nat
  BY Numbers DEF Accounts
<1>3. InHand = 1 /\ InHand' = 0 /\ depth' = depth
  BY DEF InHand
<1>4. Reckoned' % Modulus = Reckoned % Modulus /\ total'["enqueued"] = total["enqueued"]
  <2>1. total'["enqueued"] = total["enqueued"] /\ total'["expired"] = total["expired"]
    BY DEF Completed, Shape
  <2>2. CASE good
    <3> DEFINE n == total["completed"]
               y == total["failed"] + total["expired"] + depth["all"]
    <3>1. n \in 0 .. Modulus - 1 /\ y \in Nat
      BY <1>2
    <3>2. total'["completed"] = Plus1(n) /\ total'["failed"] = total["failed"]
      BY <2>2 DEF Completed, Shape
    <3>3. Plus1(n) \in Nat
      <4>1. n \in Int
        BY <1>2
      <4>2. QED
        BY <4>1, Plus1Type
    <3>4. Reckoned = n + 1 + y
      BY <1>2, <1>3, SMTT(30) DEF Reckoned
    <3>5. Reckoned' = Plus1(n) + total["failed"] + total["expired"] + depth["all"] + 0
      BY <1>3, <2>1, <3>2 DEF Reckoned
    <3>6. Reckoned' = Plus1(n) + y
      <4> HIDE DEF n
      <4>1. QED
        BY <1>2, <3>3, <3>5
    <3> HIDE DEF n, y
    <3>7. QED
      BY <2>1, <3>1, <3>4, <3>6, ModWrap
  <2>3. CASE ~good
    <3> DEFINE n == total["failed"]
               y == total["completed"] + total["expired"] + depth["all"]
    <3>1. n \in 0 .. Modulus - 1 /\ y \in Nat
      BY <1>2
    <3>2. total'["failed"] = Plus1(n) /\ total'["completed"] = total["completed"]
      BY <2>3 DEF Completed, Shape
    <3>3. Plus1(n) \in Nat
      <4>1. n \in Int
        BY <1>2
      <4>2. QED
        BY <4>1, Plus1Type
    <3>4. Reckoned = n + 1 + y
      BY <1>2, <1>3, SMTT(30) DEF Reckoned
    <3>5. Reckoned' = total["completed"] + Plus1(n) + total["expired"] + depth["all"] + 0
      BY <1>3, <2>1, <3>2 DEF Reckoned
    <3>6. Reckoned' = Plus1(n) + y
      <4> HIDE DEF n
      <4>1. QED
        BY <1>2, <3>3, <3>5
    <3> HIDE DEF n, y
    <3>7. QED
      BY <2>1, <3>1, <3>4, <3>6, ModWrap
  <2>4. QED
    BY <2>2, <2>3
<1>5. TotalsFit'
  BY <1>4 DEF Accounts, TotalsFit
<1>6. QED
  BY <1>1, <1>5 DEF Accounts

LEMMA AccountsTakes ==
  ASSUME Shape, Owned, Sorted, Accounts, TakeSend \/ TakeControl PROVE Accounts'
<1>1. /\ sendq \in Seq(Requests) /\ ctlq \in Seq(Requests)
      /\ OwnedBy(caller, sendq, ctlq, actor.cur.from)
  BY DEF Shape, Owned
<1>2. CASE TakeSend
  <2>1. /\ sendq # << >> /\ sendq' = Tail(sendq) /\ ctlq' = ctlq /\ actor.pc = "recv"
        /\ \E burst : Take(Head(sendq), burst)
    BY <1>2 DEF TakeSend, SendsTurn
  <2>2. /\ Head(sendq) \in Requests /\ Head(sendq) = sendq[1] /\ 1 \in 1 .. Len(sendq)
        /\ Len(sendq) >= 1 /\ Len(sendq') = Len(sendq) - 1
    BY <1>1, <2>1, TailType
  <2>3. Lane(Head(sendq).kind) = "send"
    BY <2>2 DEF Sorted, Lane
  <2>4. Head(sendq).from \in Callers => caller[Head(sendq).from].pc = "waiting"
    BY <1>1, <2>1, <2>2, HeadIsSole, KindAssumption
  <2>5. QED
    BY <2>1, <2>2, <2>3, <2>4, AccountsTake
<1>3. CASE TakeControl
  <2>1. /\ ctlq # << >> /\ ctlq' = Tail(ctlq) /\ sendq' = sendq /\ actor.pc = "recv"
        /\ Take(Head(ctlq), 0)
    BY <1>3 DEF TakeControl
  <2>2. /\ Head(ctlq) \in Requests /\ Head(ctlq) = ctlq[1] /\ 1 \in 1 .. Len(ctlq)
        /\ Len(ctlq) >= 1 /\ Len(ctlq') = Len(ctlq) - 1
    BY <1>1, <2>1, TailType
  <2>3. Lane(Head(ctlq).kind) = "control"
    BY <2>2 DEF Sorted, Lane, SendKinds, ControlKinds
  <2>4. Head(ctlq).from \in Callers => caller[Head(ctlq).from].pc = "waiting"
    BY <1>1, <2>1, <2>2, HeadIsSole, KindAssumption
  <2>5. QED
    BY <2>1, <2>2, <2>3, <2>4, AccountsTake
<1>4. QED
  BY <1>2, <1>3

\* The caller of the request in hand, and those of a lane, are not at the counter.
LEMMA NamedWait ==
  ASSUME Shape, Owned
  PROVE  /\ actor.cur.from \in Callers => caller[actor.cur.from].pc = "waiting"
         /\ \A c \in Callers : c \in Senders(sendq) \cup Senders(ctlq) => caller[c].pc = "waiting"
BY KindAssumption DEF Shape, Owned, OwnedBy, Claimed, Senders

LEMMA AccountsReply ==
  ASSUME Shape, Owned, Accounts, NEW good \in BOOLEAN, Completed(good), Reply,
         actor.pc \in {"start", "perform"}, UNCHANGED <<depth, dropped>>
  PROVE  Accounts'
<1>1. Answered({actor.cur.from}) /\ UNCHANGED <<sendq, ctlq>> /\ actor'.pc = "recv"
  BY DEF Reply, lanes, Shape, ActorRecord
<1>2. \A l : Counting(l)' = Counting(l)
  <2>1. \A c \in Callers : c \in {actor.cur.from} => caller[c].pc = "waiting"
    BY NamedWait
  <2>2. QED
    BY <1>1, <2>1, AnsweredCounts
<1>3. QED
  BY <1>1, <1>2, AccountsCompleted

LEMMA AccountsStopping ==
  ASSUME Shape, Owned, Accounts, EndOfLanes \/ ShutdownAtOnce PROVE Accounts'
<1>1. Stopping /\ UNCHANGED <<depth, dropped>>
  BY DEF EndOfLanes, ShutdownAtOnce
<1>2. \A l : Counting(l)' = Counting(l)
  <2> DEFINE who == {actor.cur.from} \cup Senders(sendq) \cup Senders(ctlq)
  <2>1. Answered(who)
    BY <1>1 DEF Stopping
  <2>2. \A c \in Callers : c \in who => caller[c].pc = "waiting"
    BY NamedWait
  <2> HIDE DEF who
  <2>3. QED
    BY <2>1, <2>2, AnsweredCounts
<1>3. actor'.pc = "stopped"
  BY <1>1 DEF Stopping, Shape, ActorRecord
<1>4. CASE EndOfLanes
  BY <1>1, <1>4 DEF EndOfLanes, LanesClosed, Accounts, NoDepthNegative, DepthsFit, TotalsFit
<1>5. CASE ShutdownAtOnce
  <2>1. Completed(TRUE) /\ actor.pc = "start"
    BY <1>5 DEF ShutdownAtOnce
  <2>2. QED
    BY <1>1, <1>2, <1>3, <2>1, AccountsCompleted
<1>6. QED
  BY <1>4, <1>5

LEMMA AccountsGiveUp ==
  ASSUME Shape, Accounts, NEW c \in Callers, GiveUp(c) PROVE Accounts'
<1>1. /\ Len(sendq') = Len(sendq) /\ Len(ctlq') = Len(ctlq) /\ actor'.pc = actor.pc
      /\ UNCHANGED <<depth, total, dropped>>
  BY DisownedType DEF GiveUp, Shape, ActorRecord
<1>2. \A b \in Callers : SameCounted(caller[b], caller'[b])
  BY DEF GiveUp, Shape, Idle, SameCounted
<1>3. \A l : Cardinality(AtCounter(caller', l)) = Cardinality(AtCounter(caller, l))
  BY <1>2, StaysAtCounter
<1>4. \A l : Counting(l)' = Counting(l)
  BY <1>3 DEF Counting, AtCounter
<1>5. QED
  BY <1>1, <1>4, AccountsKept

LEMMA AccountsSecond ==
  ASSUME Shape, Accounts, Second PROVE Accounts'
<1>1. /\ Len(sendq') = Len(sendq) /\ Len(ctlq') = Len(ctlq) /\ actor'.pc = actor.pc
      /\ UNCHANGED <<depth, total, dropped>>
  BY AgedType DEF Second, Shape
<1>2. ASSUME NEW b \in Callers PROVE SameCounted(caller[b], caller'[b])
  <2>1. caller[b] \in CallerRecord
    BY DEF Shape
  <2>2. CASE caller[b].pc = "counted"
    <3>1. caller'[b] = [caller[b] EXCEPT !.req.age = Older(@)]
      BY <2>2 DEF Second
    <3>2. QED
      BY <2>1, <2>2, <3>1 DEF CallerRecord, Requests, SameCounted
  <2>3. CASE caller[b].pc = "waiting"
    <3>1. caller'[b] = [caller[b] EXCEPT !.wait = Older(@)]
      BY <2>3 DEF Second
    <3>2. QED
      BY <2>1, <2>3, <3>1 DEF CallerRecord, SameCounted
  <2>4. CASE caller[b].pc \notin {"counted", "waiting"}
    BY <2>4 DEF Second, SameCounted
  <2>5. QED
    BY <2>2, <2>3, <2>4
<1>3. \A l : Cardinality(AtCounter(caller', l)) = Cardinality(AtCounter(caller, l))
  BY <1>2, StaysAtCounter
<1>4. \A l : Counting(l)' = Counting(l)
  BY <1>3 DEF Counting, AtCounter
<1>5. QED
  BY <1>1, <1>4, AccountsKept

LEMMA AccountsStep ==
  ASSUME Shape, Owned, Sorted, Accounts, [Next]_vars PROVE Accounts'
<1>1. ASSUME NEW c \in Callers, CallerStep(c) PROVE Accounts'
  BY <1>1, AccountsRequest, AccountsRefused, AccountsEnqueue, AccountsGiveUp DEF CallerStep
<1>2. CASE Drop
  BY <1>2 DEF Drop, Accounts, NoDepthNegative, DepthsFit, TotalsFit
<1>3. CASE /\ UNCHANGED <<caller, sendq, ctlq, depth, total, dropped>>
           /\ actor' = [actor EXCEPT !.pc = "perform"] /\ actor.pc = "start"
  <2>1. /\ InHand' = InHand /\ actor'.pc = "perform"
    BY <1>3 DEF InHand, Shape, ActorRecord
  <2>2. \A l : Counting(l)' = Counting(l)
    BY <1>3 DEF Counting
  <2>3. QED
    BY <1>3, <2>1, <2>2, AccountsKept
<1>4. CASE OpenSession
  <2>1. CASE Completed(FALSE) /\ Reply
    BY <1>4, <2>1, AccountsReply DEF OpenSession
  <2>2. CASE actor' = [actor EXCEPT !.pc = "perform"] /\ UNCHANGED <<caller, lanes, total>>
    BY <1>3, <1>4, <2>2 DEF OpenSession, lanes
  <2>3. QED
    BY <1>4, <2>1, <2>2 DEF OpenSession
<1>5. CASE UseSession
  BY <1>3, <1>5 DEF UseSession, lanes
<1>6. CASE Perform
  BY <1>6, AccountsReply DEF Perform
<1>7. CASE UNCHANGED vars
  <2>1. \A l : Counting(l)' = Counting(l)
    BY <1>7 DEF vars, Counting
  <2>2. QED
    BY <1>7, <2>1, AccountsKept DEF vars
<1>8. QED
  BY <1>1, <1>2, <1>4, <1>5, <1>6, <1>7, AccountsStopping, AccountsTakes, AccountsSecond
  DEF Next, ActorStep

LEMMA AccountsHold == Spec => []Accounts
BY AccountsInit, AccountsStep, ShapeHolds, OwnedHolds, SortedHolds, PTL DEF Spec

-----------------------------------------------------------------------------
(* Requests whose callers have gone.                                       *)

\* A lane in which every request is one of another lane, and its age no less.
LEMMA GoneKept ==
  ASSUME NEW q \in Seq(Requests), NEW p \in Seq(Requests), GoneAreExpired(q),
         \A i \in 1 .. Len(p) : \E j \in 1 .. Len(q) :
           p[i].from = q[j].from /\ q[j].age <= p[i].age
  PROVE  GoneAreExpired(p)
<1>1. \A i \in 1 .. Len(p) : p[i].age \in Nat
  BY SendersType
<1>2. \A j \in 1 .. Len(q) : q[j].age \in Nat
  BY SendersType
<1>3. QED
  BY <1>1, <1>2, DeadlineAssumption DEF GoneAreExpired, Expired

LEMMA AbandonedEnqueue ==
  ASSUME Shape, Abandoned, NEW c \in Callers, Enqueue(c) PROVE Abandoned'
<1> DEFINE r == caller[c].req
<1>1. r \in Requests /\ r.from # Nobody /\ ~dropped
  BY KindAssumption, SMTT(30) DEF Shape, Clerk, CallerRecord, Enqueue
<1>2. \/ sendq' = Append(sendq, r) /\ ctlq' = ctlq
      \/ sendq' = sendq /\ ctlq' = Append(ctlq, r)
  BY DEF Enqueue
<1>3. sendq \in Seq(Requests) /\ ctlq \in Seq(Requests)
  BY DEF Shape
<1> HIDE DEF r
<1>4. ASSUME NEW q \in Seq(Requests), GoneAreExpired(q) PROVE GoneAreExpired(Append(q, r))
  <2>1. \A i \in 1 .. Len(Append(q, r)) :
          (i \in 1 .. Len(q) /\ Append(q, r)[i] = q[i]) \/ Append(q, r)[i] = r
    BY <1>1
  <2>2. QED
    BY <1>1, <1>4, <2>1 DEF GoneAreExpired
<1>5. GoneAreExpired(sendq) /\ GoneAreExpired(ctlq)
  BY <1>1 DEF Abandoned
<1>6. GoneAreExpired(sendq') /\ GoneAreExpired(ctlq')
  BY <1>2, <1>3, <1>4, <1>5
<1>7. QED
  BY <1>6 DEF Abandoned

\* A caller gives up later than its request expires.
LEMMA AbandonedGiveUp ==
  ASSUME Shape, Owned, Abandoned, NEW c \in Callers, GiveUp(c) PROVE Abandoned'
<1>1. /\ caller[c].pc = "waiting" /\ caller[c].wait >= RequestTimeout + ReceiveGrace
      /\ caller[c].wait \in Nat /\ ~dropped
  BY AgesType DEF GiveUp, Shape, CallerRecord, Clerk
<1>2. /\ sendq \in Seq(Requests) /\ ctlq \in Seq(Requests)
      /\ Claimed(caller, sendq) /\ Claimed(caller, ctlq)
      /\ GoneAreExpired(sendq) /\ GoneAreExpired(ctlq)
  BY <1>1 DEF Shape, Owned, OwnedBy, Abandoned
<1>3. ASSUME NEW q \in Seq(Requests), Claimed(caller, q), GoneAreExpired(q)
      PROVE  GoneAreExpired(DisownedIn(c, q))
  <2> DEFINE p == DisownedIn(c, q)
  <2>1. /\ Len(p) = Len(q)
        /\ \A i \in 1 .. Len(q) : /\ p[i].from = IF q[i].from = c THEN Nobody ELSE q[i].from
                                  /\ p[i].age = q[i].age /\ q[i].age \in Nat
    BY DisownedType, SendersType
  <2> HIDE DEF p
  <2>2. \A i \in 1 .. Len(q) : q[i].from = c => Expired(q[i])
    BY <1>1, <1>3, <2>1, KindAssumption, DeadlineAssumption DEF Claimed, Expired
  <2>3. \A i \in 1 .. Len(p) : p[i].from = Nobody => Expired(q[i])
    BY <1>3, <2>1, <2>2 DEF GoneAreExpired
  <2>4. GoneAreExpired(p)
    BY <2>1, <2>3 DEF GoneAreExpired, Expired
  <2>5. QED
    BY <2>4 DEF p
<1>4. GoneAreExpired(sendq') /\ GoneAreExpired(ctlq')
  BY <1>2, <1>3 DEF GiveUp
<1>5. QED
  BY <1>4 DEF Abandoned

LEMMA AbandonedStep ==
  ASSUME Shape, Owned, Abandoned, [Next]_vars PROVE Abandoned'
<1>1. sendq \in Seq(Requests) /\ ctlq \in Seq(Requests)
  BY DEF Shape
<1>2. CASE UNCHANGED <<sendq, ctlq, dropped>>
  BY <1>2 DEF Abandoned
<1>3. ASSUME NEW q \in Seq(Requests), q # << >>, GoneAreExpired(q)
      PROVE  GoneAreExpired(Tail(q))
  <2>1. \A i \in 1 .. Len(Tail(q)) : i + 1 \in 1 .. Len(q) /\ Tail(q)[i] = q[i + 1]
    BY <1>3, TailType
  <2>2. QED
    BY <1>3, <2>1 DEF GoneAreExpired
<1>4. CASE TakeSend
  <2>1. sendq # << >> /\ sendq' = Tail(sendq) /\ ctlq' = ctlq /\ dropped' = dropped
    BY <1>4 DEF TakeSend, SendsTurn, Take
  <2>2. QED
    BY <1>1, <1>3, <2>1 DEF Abandoned
<1>5. CASE TakeControl
  <2>1. ctlq # << >> /\ ctlq' = Tail(ctlq) /\ sendq' = sendq /\ dropped' = dropped
    BY <1>5 DEF TakeControl, Take
  <2>2. QED
    BY <1>1, <1>3, <2>1 DEF Abandoned
<1>6. CASE EndOfLanes \/ ShutdownAtOnce
  <2>1. Len(sendq') = 0 /\ Len(ctlq') = 0
    BY <1>6 DEF EndOfLanes, ShutdownAtOnce, Stopping
  <2>2. QED
    BY <2>1 DEF Abandoned, GoneAreExpired
<1>7. CASE Second
  <2>1. ASSUME NEW q \in Seq(Requests), GoneAreExpired(q) PROVE GoneAreExpired(AgedIn(q))
    <3>1. /\ AgedIn(q) \in Seq(Requests) /\ Len(AgedIn(q)) = Len(q)
          /\ \A i \in 1 .. Len(q) : AgedIn(q)[i].age = Older(q[i].age)
                                    /\ AgedIn(q)[i].from = q[i].from
      BY AgedType
    <3>2. \A i \in 1 .. Len(q) : q[i].age \in Ages
      <4>1. \A i \in 1 .. Len(q) : q[i] \in Requests
        OBVIOUS
      <4>2. QED
        BY <4>1 DEF Requests
    <3>3. \A i \in 1 .. Len(AgedIn(q)) :
            i \in 1 .. Len(q) /\ AgedIn(q)[i].from = q[i].from /\ q[i].age <= AgedIn(q)[i].age
      BY <3>1, <3>2, AgesType
    <3>4. QED
      BY <2>1, <3>1, <3>3, GoneKept
  <2>2. QED
    BY <1>1, <1>7, <2>1 DEF Second, Abandoned
<1>8. CASE Drop
  BY <1>8 DEF Drop, Abandoned
<1>9. ASSUME NEW c \in Callers, Request(c) \/ Refused(c) PROVE Abandoned'
  BY <1>2, <1>9 DEF Request, Refused, lanes
<1>10. CASE OpenSession \/ UseSession \/ Perform
  BY <1>2, <1>10 DEF OpenSession, UseSession, Perform, Reply, lanes
<1>11. CASE UNCHANGED vars
  BY <1>2, <1>11 DEF vars
<1>12. QED
  BY <1>4, <1>5, <1>6, <1>7, <1>8, <1>9, <1>10, <1>11, AbandonedEnqueue, AbandonedGiveUp
  DEF Next, CallerStep, ActorStep

LEMMA AbandonedHolds == Spec => []Abandoned
<1>1. Init => Abandoned
  <2>1. Init => Len(sendq) = 0 /\ Len(ctlq) = 0
    BY DEF Init
  <2>2. QED
    BY <2>1 DEF Abandoned, GoneAreExpired
<1>2. QED
  BY <1>1, AbandonedStep, ShapeHolds, OwnedHolds, PTL DEF Spec

-----------------------------------------------------------------------------
(* The session.                                                            *)

LEMMA SessionPerform ==
  ASSUME Shape, SessionFits, Perform PROVE SessionFits'
<1>1. PICK good \in BOOLEAN :
        (Call(good) \/ Announce(good)) /\ SessionAfter(good) /\ Reply
  BY DEF Perform
<1>2. actor'.pc = "recv"
  BY <1>1 DEF Reply, Shape, ActorRecord
<1>3. CASE ~good
  BY <1>1, <1>2, <1>3 DEF SessionAfter, SessionFits
<1>4. CASE good
  <2>1. session' = identity'
    BY <1>1, <1>4 DEF SessionAfter
  <2>2. identity' # NoIdentity => announced' = identity'
    <3>1. CASE Call(good)
      BY <3>1 DEF Call, SessionFits, Perform
    <3>2. CASE Announce(good)
      BY <1>4, <3>2 DEF Announce
    <3>3. QED
      BY <1>1, <3>1, <3>2
  <2>3. QED
    BY <1>2, <2>1, <2>2 DEF SessionFits
<1>5. QED
  BY <1>3, <1>4

LEMMA SessionStep ==
  ASSUME Shape, SessionFits, [Next]_vars PROVE SessionFits'
<1>1. CASE UNCHANGED links /\ (actor'.pc = "perform" => actor.pc = "perform")
  BY <1>1 DEF links, SessionFits
<1>2. CASE OpenSession
  <2>1. CASE actor' = [actor EXCEPT !.pc = "perform"] /\ session' = identity
             /\ announced' = Restored
    BY <1>2, <2>1, KindAssumption DEF OpenSession, SessionFits, Restored, Shape
  <2>2. CASE Reply /\ UNCHANGED session
    <3>1. actor'.pc = "recv" /\ session' = NoSession
      BY <1>2, <2>2 DEF OpenSession, Reply, Shape, ActorRecord
    <3>2. QED
      BY <3>1 DEF SessionFits
  <2>3. QED
    BY <1>2, <2>1, <2>2 DEF OpenSession
<1>3. CASE UseSession
  BY <1>3 DEF UseSession, links, SessionFits
<1>4. CASE EndOfLanes \/ ShutdownAtOnce
  BY <1>1, <1>4 DEF EndOfLanes, ShutdownAtOnce, Stopping, Shape, ActorRecord
<1>5. CASE TakeSend \/ TakeControl
  BY <1>1, <1>5 DEF TakeSend, TakeControl, Take, Shape, ActorRecord
<1>6. ASSUME NEW c \in Callers, CallerStep(c) PROVE SessionFits'
  BY <1>1, <1>6 DEF CallerStep, Request, Refused, Enqueue, GiveUp, Shape, ActorRecord
<1>7. CASE Drop \/ Second \/ UNCHANGED vars
  BY <1>1, <1>7 DEF Drop, Second, vars, links
<1>8. QED
  BY <1>2, <1>3, <1>4, <1>5, <1>6, <1>7, SessionPerform DEF Next, ActorStep

LEMMA SessionHolds == Spec => []SessionFits
<1>1. Init => SessionFits
  BY DEF Init, SessionFits
<1>2. QED
  BY <1>1, SessionStep, ShapeHolds, PTL DEF Spec

-----------------------------------------------------------------------------
(* What the runs check.                                                    *)

\* The state of the data plane always has the shape it should, and no queue depth ever
\* goes below zero: the counter that a refusal takes back is one that its own request
\* has raised (transport-rns lib.rs:135-180).
THEOREM TypeCorrect == Spec => []TypeOK
<1>1. Shape /\ NoDepthNegative => TypeOK
  <2>1. SUFFICES ASSUME Shape, NoDepthNegative PROVE TypeOK
    OBVIOUS
  <2>2. depth \in [{"all", "send", "control"} -> Nat]
    BY <2>1 DEF Shape, NoDepthNegative
  <2>3. QED
    BY <2>1, <2>2 DEF Shape, TypeOK, CallerRecord, ActorRecord
<1>2. QED
  BY <1>1, ShapeHolds, AccountsHold, PTL DEF Accounts

\* For any number of callers, lanes of any size and totals that wrap anywhere: until the
\* handle is dropped the depths say what is in the lanes or about to be, and every
\* request counted is completed, failed, expired, in a lane or in hand
\* (transport-rns lib.rs:135-239).
THEOREM CountersExact == Spec => []CountersAreExact
<1>1. Accounts => CountersAreExact
  BY DEF Accounts, DepthsFit, TotalsFit, Reckoned, InHand, SendsComing, ControlsComing,
         CountersAreExact
<1>2. QED
  BY <1>1, AccountsHold, PTL

\* Whatever the actor asks of reticulumd is asked under the identity registered last
\* (transport-rns lib.rs:1915).
THEOREM IdentityServed == Spec => []ServedUnderRegisteredIdentity
<1>1. SessionFits => ServedUnderRegisteredIdentity
  BY DEF SessionFits, ServedUnderRegisteredIdentity
<1>2. QED
  BY <1>1, SessionHolds, PTL

\* The actor never starts on a request whose caller has given up, whatever the two
\* grace periods are as long as a caller waits no less than the actor does
\* (transport-rns lib.rs:2030).
THEOREM OnlyAwaitedStarts == Spec => StartedIsAwaited
<1> DEFINE Fine == actor.pc = "recv" /\ actor'.pc = "start" /\ ~dropped
                     => actor'.cur.from # Nobody
<1>1. ASSUME Shape, Abandoned, [Next]_vars PROVE Fine
  <2>1. ASSUME NEW r \in Requests, NEW burst, Take(r, burst),
               ~dropped => (r.from = Nobody => Expired(r)), actor.pc = "recv"
        PROVE  Fine
    BY <1>1, <2>1, SMTT(30) DEF Take, Shape, ActorRecord
  <2>2. ASSUME NEW q \in Seq(Requests), q # << >>, GoneAreExpired(q)
        PROVE  Head(q) \in Requests /\ (Head(q).from = Nobody => Expired(Head(q)))
    BY <2>2, TailType DEF GoneAreExpired
  <2>3. sendq \in Seq(Requests) /\ ctlq \in Seq(Requests)
    BY <1>1 DEF Shape
  <2>4. CASE TakeSend
    <3>1. /\ sendq # << >> /\ actor.pc = "recv"
          /\ \E burst : Take(Head(sendq), burst)
      BY <2>4 DEF TakeSend, SendsTurn
    <3>2. Head(sendq) \in Requests
      BY <2>3, <3>1, TailType
    <3>3. ~dropped => (Head(sendq).from = Nobody => Expired(Head(sendq)))
      BY <1>1, <2>2, <2>3, <3>1 DEF Abandoned
    <3>4. QED
      BY <2>1, <3>1, <3>2, <3>3
  <2>5. CASE TakeControl
    <3>1. ctlq # << >> /\ actor.pc = "recv" /\ Take(Head(ctlq), 0)
      BY <2>5 DEF TakeControl
    <3>2. Head(ctlq) \in Requests
      BY <2>3, <3>1, TailType
    <3>3. ~dropped => (Head(ctlq).from = Nobody => Expired(Head(ctlq)))
      BY <1>1, <2>2, <2>3, <3>1 DEF Abandoned
    <3>4. QED
      BY <2>1, <3>1, <3>2, <3>3
  <2>6. ASSUME NEW c \in Callers, CallerStep(c) PROVE actor'.pc = actor.pc
    BY <1>1, <2>6 DEF CallerStep, Request, Refused, Enqueue, GiveUp, Shape, ActorRecord
  <2>7. CASE Drop \/ Second \/ UNCHANGED vars
    BY <2>7 DEF Drop, Second, vars
  <2>8. CASE EndOfLanes
    BY <1>1, <2>8 DEF EndOfLanes, Stopping, Shape, ActorRecord
  <2>9. CASE ShutdownAtOnce \/ OpenSession \/ UseSession \/ Perform
    BY <2>9 DEF ShutdownAtOnce, OpenSession, UseSession, Perform
  <2>10. QED
    BY <1>1, <2>4, <2>5, <2>6, <2>7, <2>8, <2>9 DEF Next, ActorStep
<1> HIDE DEF Fine
<1>2. ASSUME Shape, Abandoned, [Next]_vars PROVE [Fine]_vars
  BY <1>1, <1>2
<1>3. Spec => [][Fine]_vars
  BY <1>2, ShapeHolds, AbandonedHolds, PTL DEF Spec
<1>4. QED
  BY <1>3 DEF Fine, StartedIsAwaited

=============================================================================
