------------------------ MODULE InboundEventsProofs ------------------------
(***************************************************************************)
(* Theorems about InboundEvents for every value of its constants: type     *)
(* correctness, that the cursor passes nothing over, that what is relayed  *)
(* is stored, that commands keep the order of the stream, and that a       *)
(* message is handled once as long as its mark is kept.                    *)
(*                                                                         *)
(* The inductive invariant IInv, beyond the types: a cursor of the current *)
(* runtime lies between base and the last message and has only taken       *)
(* messages behind it (CursorBehind); what lies behind the next cursor of  *)
(* a tick is taken or still in the hands of the tick (TickCovers); a       *)
(* marked message was taken (MarkedIsTaken); each stage of a handler knows *)
(* what was done (StageKnows); a batch is handled from its first message   *)
(* on (ItemIsFirst).  OnceSoFar adds, for a message whose mark was never   *)
(* lost, that without a mark nothing was done but by the handler that has  *)
(* the message in hand.                                                    *)
(***************************************************************************)
EXTENDS InboundEvents, TLAPS

CursorInRange(c) == c.run <= runtime /\ (c.run = runtime => c.at \in base .. Len(arrived))
CursorsInRange   == CursorInRange(cursor) /\ CursorInRange(savedCursor) /\ CursorInRange(after)

CursorBehind == NothingPassedOver

TickCovers ==
  after.run = runtime =>
    \A m \in base + 1 .. after.at :
      \/ Taken(m)
      \/ phase = "recover" /\ (m \in todo \/ m \in polled)
      \/ phase = "decode" /\ m \in polled
      \/ phase = "handle" /\ m \in todo

MarkedIsTaken == \A m \in Marks(events) \cup Marks(storedEvents) : m \in Arrived /\ Taken(m)

StageKnows ==
  /\ item # 0 => Kind(item) \notin {"malformed", "garbled"}
  /\ stage = "record" => Kind(item) = "chat"
  /\ stage = "act" /\ Kind(item) = "chat" => storedRows[item] > 0
  /\ stage = "mark" => Taken(item) /\ Kind(item) # "refused"

\* Envelopes are handled in the order of the batch, the batch ends at after.
ItemIsFirst ==
  /\ \A m \in polled : m <= after.at
  /\ phase = "handle" => todo \subseteq polled
  /\ phase = "handle" /\ item # 0 => \A n \in todo : item <= n

NotYet == \A m \in Messages : m \notin Arrived => acts[m] = 0 /\ rows[m] = 0

MemoryHasAll == \A m \in Messages : storedRows[m] <= rows[m]

IInv == /\ TypeOK /\ CursorsInRange /\ CursorBehind /\ TickCovers
        /\ MarkedIsTaken /\ StageKnows /\ ItemIsFirst /\ NotYet /\ MemoryHasAll
        /\ RelayedIsStored

\* What a message has led to that was never cut off and whose mark was never
\* lost: nothing yet without its mark, except by the handler that has it.
OnceFor(m) ==
  /\ acts[m] <= 1 /\ rows[m] <= 1
  /\ m \notin Marks(events) =>
       /\ acts[m] > 0 => item = m /\ stage = "mark"
       /\ rows[m] > 0 => item = m /\ stage \in {"act", "mark"}
  /\ item = m => m \notin Marks(events)

OnceSoFar ==
  /\ \A m \in Arrived \ (forgotten \cup cut) : Kind(m) # "refused" => OnceFor(m)
  /\ \A m \in Arrived : rows[m] > 0 => Kind(m) = "chat"

-----------------------------------------------------------------------------
(* The list of system events.                                              *)

\* Cutting the list keeps it a list, of at most EventCap entries.
LEMMA KeptIsList ==
  ASSUME NEW log \in Seq(Entries)
  PROVE  Kept(log) \in Seq(Entries) /\ Len(Kept(log)) <= EventCap
BY BoundsAssumption DEF Kept

\* The cut list has entries of the list, the last of them in any case.
LEMMA KeptEntries ==
  ASSUME NEW log \in Seq(Entries)
  PROVE  /\ DOMAIN Kept(log) = 1..Len(Kept(log))
         /\ \A i \in 1..Len(Kept(log)) : \E j \in 1..Len(log) : Kept(log)[i] = log[j]
         /\ Len(log) > 0 => Len(Kept(log)) > 0 /\ Kept(log)[Len(Kept(log))] = log[Len(log)]
<1>1. CASE Len(log) <= EventCap
  <2>1. Kept(log) = log
    BY <1>1, BoundsAssumption DEF Kept
  <2>2. QED
    BY <2>1
<1>2. CASE Len(log) > EventCap
  <2> DEFINE from == Len(log) - EventCap + 1
  <2>1. Kept(log) = SubSeq(log, from, Len(log))
    BY <1>2 DEF Kept
  <2>2. from \in 1..Len(log) /\ Len(log) - from + 1 = EventCap
    BY <1>2, BoundsAssumption
  <2>3. /\ Len(Kept(log)) = EventCap /\ DOMAIN Kept(log) = 1..EventCap
        /\ \A i \in 1..EventCap : Kept(log)[i] = log[from + i - 1]
    BY <2>1, <2>2
  <2>4. \A i \in 1..EventCap : from + i - 1 \in 1..Len(log)
    BY <2>2, BoundsAssumption
  <2>5. from + EventCap - 1 = Len(log) /\ EventCap \in 1..EventCap /\ EventCap > 0
    BY <1>2, BoundsAssumption
  <2> HIDE DEF from
  <2>6. QED
    BY <2>3, <2>4, <2>5
<1>3. QED
  BY <1>1, <1>2, BoundsAssumption

\* Appending an entry and cutting adds at most the mark the entry is.
LEMMA NoNewMarks ==
  ASSUME NEW log \in Seq(Entries), NEW e \in Entries
  PROVE  \A m \in Marks(Kept(Append(log, e))) : m \in Marks(log) \/ e = Entry("mark", m)
<1> DEFINE long == Append(log, e)
<1>1. long \in Seq(Entries) /\ Len(long) = Len(log) + 1
  OBVIOUS
<1>2. \A j \in 1..Len(long) : long[j] = e \/ (j \in DOMAIN log /\ long[j] = log[j])
  OBVIOUS
<1> HIDE DEF long
<1>3. \A i \in DOMAIN Kept(long) : \E j \in 1..Len(long) : Kept(long)[i] = long[j]
  BY <1>1, KeptEntries
<1>4. \A m \in Marks(Kept(long)) : m \in Marks(log) \/ e = Entry("mark", m)
  BY <1>2, <1>3 DEF Marks
<1>5. QED
  BY <1>4 DEF long

\* The entry just appended is still there after the cut.
LEMMA NewMarkIsKept ==
  ASSUME NEW log \in Seq(Entries), NEW m \in Messages, Entry("mark", m) \in Entries
  PROVE  m \in Marks(Kept(Append(log, Entry("mark", m))))
<1> DEFINE long == Append(log, Entry("mark", m))
<1>1. long \in Seq(Entries) /\ Len(long) > 0 /\ long[Len(long)] = Entry("mark", m)
  OBVIOUS
<1> HIDE DEF long
<1>2. Kept(long) \in Seq(Entries)
  BY <1>1, KeptIsList
<1>3. Len(Kept(long)) \in DOMAIN Kept(long) /\ Kept(long)[Len(Kept(long))] = Entry("mark", m)
  BY <1>1, <1>2, KeptEntries
<1>4. m \in Marks(Kept(long))
  BY <1>3 DEF Marks
<1>5. QED
  BY <1>4 DEF long

\* What is logged about a message, or about none, is an entry.
LEMMA EntryInEntries ==
  ASSUME NEW what \in {"mark", "quarantine", "other"}, NEW m \in 0..MaxMessages
  PROVE  Entry(what, m) \in Entries
BY DEF Entry, Entries

\* Logging keeps both lists well formed.
LEMMA LogIsList ==
  ASSUME TypeOK, NEW e \in Entries, NEW persisted \in BOOLEAN, Log(e, persisted)
  PROVE  /\ events' \in Seq(Entries) /\ storedEvents' \in Seq(Entries)
         /\ Len(events') <= EventCap /\ Len(storedEvents') <= EventCap
         /\ forgotten' \subseteq Messages
<1>1. Append(events, e) \in Seq(Entries) /\ Append(storedEvents, e) \in Seq(Entries)
  BY DEF TypeOK, HubTypeOK
<1>2. QED
  BY <1>1, KeptIsList DEF Log, TypeOK, HubTypeOK, Marks

-----------------------------------------------------------------------------
(* Type correctness.                                                       *)

\* The batch of a poll is an interval of what arrived.
LEMMA BatchIsInterval ==
  ASSUME TypeOK
  PROVE  /\ From \in Nat /\ From <= MaxMessages
         /\ Batch \subseteq Arrived
         /\ BatchEnd \in 0..MaxMessages
         /\ \A m \in Batch : m <= BatchEnd
         /\ Batch = {} => BatchEnd = From
         /\ Batch # {} => BatchEnd \in Batch /\ \A m \in From + 1 .. BatchEnd : m \in Batch \/ StreamGap
<1> DEFINE first == IF From < oldest THEN oldest ELSE From + 1
           last  == IF Len(arrived) < first + PollMax THEN Len(arrived) ELSE first + PollMax - 1
<1>1. From \in Nat /\ From <= MaxMessages
  BY BoundsAssumption DEF From, TypeOK, DaemonTypeOK, WorkerTypeOK, Cursors, NoCursor
<1>2. first \in Nat /\ first >= 1 /\ (~StreamGap => first = From + 1)
  BY <1>1 DEF TypeOK, DaemonTypeOK, StreamGap
<1>3. last \in Int /\ last <= Len(arrived)
  BY <1>2, BoundsAssumption DEF TypeOK, DaemonTypeOK
<1>4. Batch = first .. last
  BY DEF Batch
<1> HIDE DEF first, last
<1>5. Batch \subseteq Arrived
  BY <1>2, <1>3, <1>4 DEF Arrived, TypeOK, DaemonTypeOK
<1>6. CASE Batch = {}
  BY <1>1, <1>5, <1>6 DEF BatchEnd
<1>7. CASE Batch # {}
  <2>1. last \in Batch /\ last + 1 \notin Batch
    BY <1>2, <1>3, <1>4, <1>7
  <2>2. BatchEnd \in Batch /\ BatchEnd + 1 \notin Batch
    BY <1>7, <2>1 DEF BatchEnd
  <2>3. BatchEnd = last
    BY <1>2, <1>3, <1>4, <2>1, <2>2
  <2>4. BatchEnd \in 0..MaxMessages
    BY <1>5, <2>2, BoundsAssumption DEF Arrived, TypeOK, DaemonTypeOK
  <2>5. QED
    BY <1>1, <1>2, <1>3, <1>4, <1>5, <1>7, <2>2, <2>3, <2>4
<1>8. QED
  BY <1>6, <1>7

\* The batch begins after the place the poll resumes from.
LEMMA BatchAfterBase ==
  ASSUME TypeOK
  PROVE  \A m \in Batch : m > From
<1>1. From \in Nat /\ oldest \in Nat
  BY BatchIsInterval DEF TypeOK, DaemonTypeOK
<1>2. \A m \in Batch : m \in Int /\ m >= (IF From < oldest THEN oldest ELSE From + 1)
  BY <1>1, BoundsAssumption DEF Batch, TypeOK, DaemonTypeOK
<1>3. QED
  BY <1>1, <1>2 DEF StreamGap

\* Actions that leave reticulumd alone and change one part of the state.
LEMMA DaemonUnchanged ==
  ASSUME TypeOK, UNCHANGED daemon
  PROVE  DaemonTypeOK' /\ Arrived' = Arrived /\ \A m \in Messages : Kind(m)' = Kind(m)
BY DEF TypeOK, DaemonTypeOK, daemon, Arrived, Kind

\* A tick that ends with an error leaves the worker idle.
LEMMA AbandonType ==
  ASSUME TypeOK, Abandon, cursor' \in Cursors, savedCursor' \in Cursors
  PROVE  WorkerTypeOK'
BY BoundsAssumption DEF Abandon, WorkerTypeOK, Cursors, NoCursor

\* The bounds used up are counted.
LEMMA SpendType ==
  ASSUME TypeOK, NEW what \in Bounded, NEW bound, Spend(what, bound)
  PROVE  used' \in [Bounded -> Nat]
BY DEF TypeOK, Spend, Bounded

\* Counting up to Many keeps a count in range.
LEMMA OneMoreInRange ==
  ASSUME NEW n \in 0..Many
  PROVE  OneMore(n) \in 1..Many /\ OneMore(n) >= n
BY DEF OneMore, Many

\* Every step of the system keeps the types.
LEMMA TypeStep ==
  ASSUME TypeOK, [Next]_vars
  PROVE  TypeOK'
<1> USE DEF TypeOK, Bounded
<1>1. ASSUME NEW k \in Kinds, Arrive(k)
      PROVE  TypeOK'
  <2>1. arrived' \in Seq(Kinds) /\ Len(arrived') = Len(arrived) + 1 /\ Len(arrived') <= MaxMessages
    BY <1>1, BoundsAssumption DEF Arrive, DaemonTypeOK
  <2>2. base' = base /\ oldest' \in base + 1 .. Len(arrived') + 1
    BY <1>1, <2>1, BoundsAssumption DEF Arrive, DaemonTypeOK
  <2>3. DaemonTypeOK'
    BY <1>1, <2>1, <2>2 DEF Arrive, DaemonTypeOK
  <2>4. Arrived \subseteq Arrived'
    BY <2>1 DEF Arrived, DaemonTypeOK
  <2>5. WorkerTypeOK'
    BY <1>1, <2>4 DEF Arrive, WorkerTypeOK, worker
  <2>6. QED
    BY <1>1, <2>3, <2>5 DEF Arrive, HubTypeOK, hub
<1>2. CASE DaemonRestart
  <2>1. DaemonTypeOK' /\ Arrived' = Arrived
    BY <1>2, BoundsAssumption DEF DaemonRestart, DaemonTypeOK, Arrived
  <2>2. WorkerTypeOK' /\ HubTypeOK'
    BY <1>2, <2>1 DEF DaemonRestart, WorkerTypeOK, worker, HubTypeOK, hub
  <2>3. QED
    BY <1>2, <2>1, <2>2 DEF DaemonRestart
<1>3. CASE OtherEvent
  <2>1. Other \in Entries
    BY EntryInEntries, BoundsAssumption DEF Other
  <2>2. HubTypeOK'
    BY <1>3, <2>1, LogIsList DEF OtherEvent, HubTypeOK
  <2>3. DaemonTypeOK' /\ WorkerTypeOK'
    BY <1>3, DaemonUnchanged DEF OtherEvent, WorkerTypeOK, worker
  <2>4. QED
    BY <1>3, <2>2, <2>3, SpendType DEF OtherEvent
<1>4. CASE ChangeReady
  BY <1>4, DaemonUnchanged, SpendType DEF ChangeReady, WorkerTypeOK, worker, HubTypeOK, hub
<1>5. CASE Crash
  <2>1. DaemonTypeOK'
    BY <1>5, DaemonUnchanged DEF Crash
  <2>2. WorkerTypeOK'
    BY <1>5, BoundsAssumption DEF Crash, WorkerTypeOK, Cursors, NoCursor
  <2>3. HubTypeOK'
    BY <1>5 DEF Crash, HubTypeOK, Marks
  <2>4. Begun \subseteq Messages
    BY BoundsAssumption DEF Begun, WorkerTypeOK, DaemonTypeOK, Arrived, Messages
  <2>5. QED
    BY <1>5, <2>1, <2>2, <2>3, <2>4, SpendType DEF Crash
<1>6. CASE Poll
  <2>1. DaemonTypeOK' /\ Arrived' = Arrived
    BY <1>6, DaemonUnchanged DEF Poll
  <2>2. after' \in Cursors
    BY <1>6, BatchIsInterval DEF Poll, Cursors, DaemonTypeOK
  <2>3. WorkerTypeOK'
    BY <1>6, <2>1, <2>2, BatchIsInterval DEF Poll, WorkerTypeOK
  <2>4. QED
    BY <1>6, <2>1, <2>3 DEF Poll, HubTypeOK, hub
<1>7. CASE ResetCursor
  <2>1. WorkerTypeOK'
    BY <1>7, DaemonUnchanged DEF ResetCursor, WorkerTypeOK, worker, Cursors
  <2>2. QED
    BY <1>7, <2>1, DaemonUnchanged, SpendType DEF ResetCursor, Fault, HubTypeOK, hub
<1>8. CASE Recovered
  <2>1. Other \in Entries
    BY EntryInEntries, BoundsAssumption DEF Other
  <2>2. HubTypeOK'
    BY <1>8, <2>1, LogIsList DEF Recovered, HubTypeOK
  <2>3. DaemonTypeOK' /\ WorkerTypeOK'
    BY <1>8, DaemonUnchanged DEF Recovered, WorkerTypeOK
  <2>4. QED
    BY <1>8, <2>2, <2>3, SpendType DEF Recovered, Fault
<1>9. ASSUME NEW m \in polled, Quarantine(m)
      PROVE  TypeOK'
  <2>1. Entry("quarantine", m) \in Entries
    BY EntryInEntries, BoundsAssumption DEF WorkerTypeOK, DaemonTypeOK, Arrived
  <2>2. HubTypeOK'
    BY <1>9, <2>1, LogIsList DEF Quarantine, HubTypeOK
  <2>3. DaemonTypeOK' /\ WorkerTypeOK'
    BY <1>9, DaemonUnchanged DEF Quarantine, WorkerTypeOK
  <2>4. QED
    BY <1>9, <2>2, <2>3, SpendType DEF Quarantine, Fault
<1>10. ASSUME NEW m \in polled, DecodeErrs(m)
       PROVE  TypeOK'
  BY <1>10, DaemonUnchanged, AbandonType DEF DecodeErrs, WorkerTypeOK, HubTypeOK, hub
<1>11. CASE Decoded
  BY <1>11, DaemonUnchanged DEF Decoded, WorkerTypeOK, HubTypeOK, hub
<1>12. ASSUME NEW m \in todo, Undecodable(m)
       PROVE  TypeOK'
  BY <1>12, DaemonUnchanged, AbandonType DEF Undecodable, WorkerTypeOK, HubTypeOK, hub
<1>13. ASSUME NEW m \in todo, Skip(m)
       PROVE  TypeOK'
  BY <1>13, DaemonUnchanged DEF Skip, Turn, WorkerTypeOK, HubTypeOK, hub
<1>14. ASSUME NEW m \in todo, Begin(m)
       PROVE  TypeOK'
  <2>1. m # 0
    BY DEF WorkerTypeOK, DaemonTypeOK, Arrived
  <2>2. QED
    BY <1>14, <2>1, DaemonUnchanged DEF Begin, Turn, WorkerTypeOK, HubTypeOK, hub
<1>15. item # 0 => item \in Messages /\ item \in todo
  BY BoundsAssumption DEF WorkerTypeOK, DaemonTypeOK, Arrived, Messages
<1>16. Begun \subseteq Messages
  BY <1>15 DEF Begun, WorkerTypeOK
<1>17. CASE TouchFails
  BY <1>16, <1>17, DaemonUnchanged, AbandonType, SpendType
     DEF TouchFails, Fault, WorkerTypeOK, HubTypeOK, hub
<1>18. CASE Record
  <2>1. item \in Messages
    BY <1>15, <1>18 DEF Record, WorkerTypeOK
  <2>2. OneMore(rows[item]) \in 0..Many /\ OneMore(storedRows[item]) \in 0..Many
    BY <2>1, OneMoreInRange DEF HubTypeOK, Many
  <2>3. HubTypeOK'
    BY <1>18, <2>2 DEF Record, HubTypeOK
  <2>4. WorkerTypeOK'
    BY <1>18, <2>1, DaemonUnchanged, AbandonType DEF Record, WorkerTypeOK
  <2>5. QED
    BY <1>18, <2>1, <2>3, <2>4, DaemonUnchanged, SpendType DEF Record, Fault
<1>19. ASSUME NEW e \in Entries, NEW persisted \in BOOLEAN, Log(e, persisted),
              UNCHANGED <<rows, storedRows, acts>> \/ (UNCHANGED <<rows, storedRows>> /\ Acted /\ item # 0)
       PROVE  HubTypeOK'
  <2>1. item # 0 => OneMore(acts[item]) \in 0..Many
    BY <1>15, OneMoreInRange DEF HubTypeOK, Many
  <2>2. acts' \in [Messages -> 0..Many]
    BY <1>19, <2>1 DEF Acted, HubTypeOK
  <2>3. QED
    BY <1>19, <2>2, LogIsList DEF HubTypeOK
<1>20. ASSUME UNCHANGED <<events, storedEvents, rows, storedRows, forgotten>>, Acted, item # 0
       PROVE  HubTypeOK'
  <2>1. OneMore(acts[item]) \in 0..Many
    BY <1>15, <1>20, OneMoreInRange DEF HubTypeOK, Many
  <2>2. QED
    BY <1>20, <2>1 DEF Acted, HubTypeOK
<1>21. Other \in Entries /\ (item # 0 => Entry("mark", item) \in Entries)
  BY <1>15, EntryInEntries, BoundsAssumption DEF Other, Messages
<1>22. CASE Act
  BY <1>19, <1>21, <1>22, DaemonUnchanged DEF Act, WorkerTypeOK
<1>23. CASE ActQuietly
  BY <1>20, <1>23, DaemonUnchanged DEF ActQuietly, WorkerTypeOK
<1>24. CASE NobodyToRelayTo
  BY <1>24, DaemonUnchanged DEF NobodyToRelayTo, WorkerTypeOK, HubTypeOK, hub
<1>25. CASE Refuse
  BY <1>20, <1>25, DaemonUnchanged DEF Refuse, NextEnvelope, WorkerTypeOK
<1>26. CASE CommandErrs
  BY <1>26, DaemonUnchanged, AbandonType DEF CommandErrs, WorkerTypeOK, HubTypeOK, hub
<1>27. CASE ActFails
  <2>1. item # 0 /\ item \in Messages
    BY <1>15, <1>27 DEF ActFails, WorkerTypeOK
  <2>2. HubTypeOK'
    BY <1>19, <1>20, <1>21, <1>27, <2>1 DEF ActFails
  <2>3. WorkerTypeOK'
    BY <1>27, AbandonType DEF ActFails, WorkerTypeOK
  <2>4. QED
    BY <1>27, <2>1, <2>2, <2>3, DaemonUnchanged, SpendType DEF ActFails, Fault
<1>28. CASE Mark
  BY <1>19, <1>21, <1>28, DaemonUnchanged DEF Mark, NextEnvelope, WorkerTypeOK
<1>29. CASE MarkFails
  <2>1. HubTypeOK' /\ WorkerTypeOK'
    BY <1>19, <1>21, <1>29, AbandonType DEF MarkFails, WorkerTypeOK
  <2>2. QED
    BY <1>29, <2>1, DaemonUnchanged, SpendType DEF MarkFails, Fault
<1>30. CASE Save
  <2>1. HubTypeOK' /\ WorkerTypeOK'
    BY <1>30, AbandonType DEF Save, WorkerTypeOK, HubTypeOK, hub
  <2>2. QED
    BY <1>30, <2>1, DaemonUnchanged, SpendType DEF Save, Fault
<1>31. CASE UNCHANGED vars
  BY <1>31, DaemonUnchanged DEF vars, WorkerTypeOK, worker, HubTypeOK, hub
<1>32. QED
  BY <1>1, <1>2, <1>3, <1>4, <1>5, <1>6, <1>7, <1>8, <1>9, <1>10, <1>11, <1>12, <1>13, <1>14,
     <1>17, <1>18, <1>22, <1>23, <1>24, <1>25, <1>26, <1>27, <1>28, <1>29, <1>30, <1>31
  DEF Next, Tick, Decode, Handle

\* The initial state has the types.
LEMMA TypeInit ==
  ASSUME Init
  PROVE  TypeOK
<1>1. DaemonTypeOK
  <2>1. arrived \in Seq(Kinds) /\ Len(arrived) = 0
    BY DEF Init
  <2>2. QED
    BY <2>1, BoundsAssumption DEF Init, DaemonTypeOK
<1>2. WorkerTypeOK
  BY DEF Init, WorkerTypeOK, Cursors
<1>3. HubTypeOK
  <2>1. <<>> \in Seq(Entries) /\ Len(<<>>) = 0
    OBVIOUS
  <2>2. [m \in Messages |-> 0] \in [Messages -> 0..Many]
    BY DEF Many
  <2>3. QED
    BY <2>1, <2>2, BoundsAssumption DEF Init, HubTypeOK
<1>4. QED
  BY <1>1, <1>2, <1>3 DEF Init, TypeOK

\* Type correctness: whatever fails, the values of the worker and of the hub
\* stay in their ranges.
THEOREM TypeCorrect == Spec => []TypeOK
BY TypeInit, TypeStep, PTL DEF Spec

-----------------------------------------------------------------------------
(* What any step may do to a part of the state.                            *)

\* The messages stay what they are; what was done is not undone.
LEMMA NothingUndone ==
  ASSUME TypeOK, [Next]_vars
  PROVE  /\ Len(arrived) <= Len(arrived')
         /\ \A m \in Arrived : m \in Arrived' /\ Kind(m)' = Kind(m)
         /\ \A m \in Messages : acts[m] <= acts'[m] /\ storedRows[m] <= storedRows'[m]
<1>1. UNCHANGED arrived \/ \E k \in Kinds : arrived' = Append(arrived, k)
  BY DEF Next, vars, daemon, Arrive, DaemonRestart, OtherEvent, ChangeReady, Crash, Tick, Poll,
         ResetCursor, Recovered, Decode, Quarantine, DecodeErrs, Decoded, Handle, Undecodable,
         Skip, Begin, TouchFails, Record, Act, ActQuietly, NobodyToRelayTo, Refuse, CommandErrs,
         ActFails, Mark, MarkFails, Save
<1>2. UNCHANGED acts \/ (Acted /\ item # 0)
  BY DEF Next, vars, hub, Arrive, DaemonRestart, OtherEvent, ChangeReady, Crash, Tick, Poll,
         ResetCursor, Recovered, Decode, Quarantine, DecodeErrs, Decoded, Handle, Undecodable,
         Skip, Begin, TouchFails, Record, Act, ActQuietly, NobodyToRelayTo, Refuse, CommandErrs,
         ActFails, Mark, MarkFails, Save, TypeOK, WorkerTypeOK
<1>3. UNCHANGED storedRows \/ (storedRows' = [storedRows EXCEPT ![item] = OneMore(@)] /\ item # 0)
  BY DEF Next, vars, hub, Arrive, DaemonRestart, OtherEvent, ChangeReady, Crash, Tick, Poll,
         ResetCursor, Recovered, Decode, Quarantine, DecodeErrs, Decoded, Handle, Undecodable,
         Skip, Begin, TouchFails, Record, Act, ActQuietly, NobodyToRelayTo, Refuse, CommandErrs,
         ActFails, Mark, MarkFails, Save, TypeOK, WorkerTypeOK
<1>4. item # 0 => item \in Messages
  BY BoundsAssumption DEF TypeOK, WorkerTypeOK, DaemonTypeOK, Arrived, Messages
<1>5. item # 0 => /\ OneMore(acts[item]) \in 1..Many /\ OneMore(acts[item]) >= acts[item]
                  /\ OneMore(storedRows[item]) \in 1..Many
                  /\ OneMore(storedRows[item]) >= storedRows[item]
  BY <1>4, OneMoreInRange DEF TypeOK, HubTypeOK
<1>6. \A m \in Messages : acts[m] <= acts'[m]
  BY <1>2, <1>4, <1>5 DEF Acted, TypeOK, HubTypeOK, Many
<1>7. \A m \in Messages : storedRows[m] <= storedRows'[m]
  BY <1>3, <1>4, <1>5 DEF TypeOK, HubTypeOK, Many
<1>8. Len(arrived) <= Len(arrived') /\ \A m \in Arrived : m \in Arrived' /\ Kind(m)' = Kind(m)
  <2>1. arrived \in Seq(Kinds)
    BY DEF TypeOK, DaemonTypeOK
  <2>2. CASE UNCHANGED arrived
    BY <2>1, <2>2 DEF Arrived, Kind
  <2>3. ASSUME NEW k \in Kinds, arrived' = Append(arrived, k)
        PROVE  /\ Len(arrived) <= Len(arrived')
               /\ \A m \in 1..Len(arrived) : m \in 1..Len(arrived') /\ arrived'[m] = arrived[m]
    BY <2>1, <2>3
  <2>4. QED
    BY <1>1, <2>2, <2>3 DEF Arrived, Kind
<1>9. QED
  BY <1>6, <1>7, <1>8

\* What is taken stays taken.
LEMMA TakenStays ==
  ASSUME TypeOK, [Next]_vars, NEW m \in Arrived, Taken(m)
  PROVE  Taken(m)'
<1>1. m \in Messages
  BY BoundsAssumption DEF TypeOK, DaemonTypeOK, Arrived, Messages
<1>2. TypeOK'
  BY TypeStep
<1>3. acts[m] <= acts'[m] /\ storedRows[m] <= storedRows'[m] /\ Kind(m)' = Kind(m)
  BY <1>1, NothingUndone
<1>4. /\ acts[m] \in Nat /\ acts'[m] \in Nat
      /\ storedRows[m] \in Nat /\ storedRows'[m] \in Nat
  <2>1. acts \in [Messages -> 0..Many] /\ storedRows \in [Messages -> 0..Many]
    BY DEF TypeOK, HubTypeOK
  <2>2. acts' \in [Messages -> 0..Many] /\ storedRows' \in [Messages -> 0..Many]
    BY <1>2 DEF TypeOK, HubTypeOK
  <2>3. QED
    BY <1>1, <2>1, <2>2 DEF Many
<1>5. QED
  BY <1>3, <1>4 DEF Taken

\* A cursor in use afterwards was one before, is none, or is the next cursor
\* of a batch whose every message was handled.
LEMMA CursorMoves ==
  ASSUME TypeOK, [Next]_vars
  PROVE  \A c \in {cursor', savedCursor'} :
           \/ c \in {cursor, savedCursor, NoCursor}
           \/ c = after /\ phase = "handle" /\ todo = {}
BY DEF Next, vars, daemon, Arrive, DaemonRestart, OtherEvent, ChangeReady, Crash, Tick, Poll,
       ResetCursor, Recovered, Decode, Quarantine, DecodeErrs, Decoded, Handle, Undecodable,
       Skip, Begin, TouchFails, Record, Act, ActQuietly, NobodyToRelayTo, Refuse, CommandErrs,
       ActFails, Mark, MarkFails, Save

\* The stream keeps its runtime, except in a restart.
LEMMA StreamMoves ==
  ASSUME TypeOK, [Next]_vars
  PROVE  UNCHANGED <<runtime, base>> \/ (runtime' = runtime + 1 /\ UNCHANGED <<after, phase, cursor, savedCursor>>)
BY DEF Next, vars, daemon, worker, Arrive, DaemonRestart, OtherEvent, ChangeReady, Crash, Tick, Poll,
       ResetCursor, Recovered, Decode, Quarantine, DecodeErrs, Decoded, Handle, Undecodable,
       Skip, Begin, TouchFails, Record, Act, ActQuietly, NobodyToRelayTo, Refuse, CommandErrs,
       ActFails, Mark, MarkFails, Save

\* A tick keeps its next cursor until it ends; a poll begins one.
LEMMA AfterMoves ==
  ASSUME TypeOK, [Next]_vars
  PROVE  UNCHANGED after \/ (Abandon /\ phase' = "idle" /\ after' = NoCursor) \/ Poll \/ Crash
BY DEF Next, vars, daemon, worker, Arrive, DaemonRestart, OtherEvent, ChangeReady, Tick,
       ResetCursor, Recovered, Decode, Quarantine, DecodeErrs, Decoded, Handle, Undecodable,
       Skip, Begin, TouchFails, Record, Act, ActQuietly, NobodyToRelayTo, Refuse, CommandErrs,
       ActFails, Mark, MarkFails, Save, Abandon, NextEnvelope

-----------------------------------------------------------------------------
(* The steps of the inductive invariant.                                   *)

\* Cursors stay within the runtime they belong to.
LEMMA RangeStep ==
  ASSUME IInv, [Next]_vars
  PROVE  CursorsInRange'
<1> USE DEF IInv
<1>1. TypeOK'
  BY TypeStep
<1>2. runtime \in Nat /\ runtime' \in Nat /\ base \in Nat /\ Len(arrived) \in Nat /\ Len(arrived') \in Nat
  BY <1>1, BoundsAssumption DEF TypeOK, DaemonTypeOK
<1>3. \A c \in {cursor, savedCursor, after} : c.run \in Int /\ c.at \in Nat
  BY BoundsAssumption DEF TypeOK, WorkerTypeOK, Cursors, NoCursor
<1>4. \A c \in {cursor, savedCursor, after} :
        c.run <= runtime' /\ (c.run = runtime' => c.at \in base' .. Len(arrived'))
  BY <1>2, <1>3, StreamMoves, NothingUndone DEF CursorsInRange, CursorInRange
<1>5. NoCursor.run = -1 /\ -1 <= runtime' /\ -1 # runtime'
  BY <1>2 DEF NoCursor
<1>6. CursorInRange(cursor)' /\ CursorInRange(savedCursor)'
  <2>1. \A c \in {cursor, savedCursor, after, NoCursor} :
          c.run <= runtime' /\ (c.run = runtime' => c.at \in base' .. Len(arrived'))
    BY <1>2, <1>4, <1>5
  <2>2. cursor' \in {cursor, savedCursor, after, NoCursor}
        /\ savedCursor' \in {cursor, savedCursor, after, NoCursor}
    BY CursorMoves
  <2>3. QED
    BY <2>1, <2>2 DEF CursorInRange
<1>7. CursorInRange(after)'
  <2>1. CASE Poll
    <3>1. after'.run = runtime /\ after'.at = BatchEnd /\ UNCHANGED <<runtime, base, arrived>>
      BY <2>1 DEF Poll, daemon
    <3>2. From \in base .. Len(arrived)
      BY <1>2, <2>1 DEF Poll, From, CursorsInRange, CursorInRange, TypeOK, DaemonTypeOK
    <3>3. BatchEnd \in base .. Len(arrived)
      <4>1. CASE Batch = {}
        BY <3>2, <4>1, BatchIsInterval
      <4>2. CASE Batch # {}
        BY <1>2, <3>2, <4>2, BatchIsInterval, BatchAfterBase DEF Arrived
      <4>3. QED
        BY <4>1, <4>2
    <3>4. QED
      BY <1>2, <3>1, <3>3 DEF CursorInRange
  <2>2. CASE UNCHANGED after
    BY <1>4, <2>2 DEF CursorInRange
  <2>3. CASE after' = NoCursor
    BY <1>5, <2>3 DEF CursorInRange
  <2>4. QED
    BY <2>1, <2>2, <2>3, AfterMoves DEF Crash
<1>8. QED
  BY <1>6, <1>7 DEF CursorsInRange

\* The cursor moves only past what was taken.
LEMMA BehindStep ==
  ASSUME IInv, [Next]_vars
  PROVE  CursorBehind'
<1> USE DEF IInv
<1>1. runtime \in Nat /\ base \in Nat /\ Len(arrived) \in Nat
  BY BoundsAssumption DEF TypeOK, DaemonTypeOK
<1>2. CASE UNCHANGED <<runtime, base>>
  <2>1. SUFFICES ASSUME NEW c \in {cursor', savedCursor'}, c.run = runtime,
                        NEW m \in base + 1 .. c.at
                 PROVE  Taken(m)'
    BY <1>2 DEF CursorBehind, NothingPassedOver
  <2>2. CASE c \in {cursor, savedCursor}
    <3>1. m \in Arrived
      BY <1>1, <2>1, <2>2 DEF CursorsInRange, CursorInRange, Arrived
    <3>2. Taken(m)
      BY <2>1, <2>2 DEF CursorBehind, NothingPassedOver
    <3>3. QED
      BY <3>1, <3>2, TakenStays
  <2>3. CASE c = after /\ phase = "handle" /\ todo = {}
    <3>1. m \in Arrived
      BY <1>1, <2>1, <2>3 DEF CursorsInRange, CursorInRange, Arrived
    <3>2. Taken(m)
      BY <2>1, <2>3 DEF TickCovers
    <3>3. QED
      BY <3>1, <3>2, TakenStays
  <2>4. c # NoCursor
    BY <1>1, <2>1 DEF NoCursor
  <2>5. QED
    BY <2>2, <2>3, <2>4, CursorMoves
<1>3. CASE runtime' = runtime + 1 /\ UNCHANGED <<after, phase, cursor, savedCursor>>
  <2>1. cursor.run <= runtime /\ savedCursor.run <= runtime /\ cursor.run \in Int /\ savedCursor.run \in Int
    BY BoundsAssumption DEF CursorsInRange, CursorInRange, TypeOK, WorkerTypeOK, Cursors, NoCursor
  <2>2. QED
    BY <1>1, <1>3, <2>1 DEF CursorBehind, NothingPassedOver
<1>4. QED
  BY <1>2, <1>3, StreamMoves

\* What a step does to the messages a tick has at hand.
LEMMA TickMoves ==
  ASSUME TypeOK, [Next]_vars
  PROVE  \/ UNCHANGED <<after, phase, polled, todo>>
         \/ after' = NoCursor /\ polled' = {} /\ phase' = "idle"
         \/ Poll
         \/ Recovered
         \/ \E m \in polled : Quarantine(m)
         \/ Decoded
         \/ \E m \in todo : Skip(m)
         \/ Refuse
         \/ Mark
BY DEF Next, vars, worker, Arrive, DaemonRestart, OtherEvent, ChangeReady, Crash, Tick,
       ResetCursor, Decode, DecodeErrs, Handle, Undecodable, Begin, TouchFails, Record, Act,
       ActQuietly, NobodyToRelayTo, CommandErrs, ActFails, MarkFails, Save, Abandon

\* A message leaves the hands of a tick only when it is taken.
LEMMA TickStep ==
  ASSUME IInv, [Next]_vars
  PROVE  TickCovers'
<1> USE DEF IInv
<1>1. runtime \in Nat /\ base \in Nat /\ Len(arrived) \in Nat
  BY BoundsAssumption DEF TypeOK, DaemonTypeOK
<1>2. TypeOK'
  BY TypeStep
<1>3. runtime' \in Nat
  BY <1>2, BoundsAssumption DEF TypeOK, DaemonTypeOK
<1>4. CASE after' = NoCursor
  BY <1>3, <1>4 DEF TickCovers, NoCursor
<1>5. CASE Poll
  <2>1. UNCHANGED daemon /\ after' = [run |-> runtime, at |-> BatchEnd] /\ polled' = Batch
    BY <1>5 DEF Poll
  <2>2. SUFFICES ASSUME NEW m \in base + 1 .. BatchEnd
                 PROVE  \/ Taken(m)'
                        \/ phase' = "recover" /\ (m \in todo' \/ m \in polled')
                        \/ phase' = "decode" /\ m \in polled'
    BY <2>1 DEF TickCovers, daemon
  <2>3. BatchEnd \in Nat /\ BatchEnd <= Len(arrived)
    <3>1. From <= Len(arrived)
      BY <1>1, <1>5 DEF Poll, From, CursorsInRange, CursorInRange, TypeOK, DaemonTypeOK
    <3>2. QED
      BY <3>1, BatchIsInterval DEF Arrived
  <2>4. m \in Arrived
    BY <1>1, <2>2, <2>3 DEF Arrived
  <2>5. CASE StreamGap
    BY <1>5, <2>4, <2>5 DEF Poll
  <2>6. CASE ~StreamGap
    <3>1. CASE m > From
      <4>1. Batch # {}
        BY <1>1, <2>2, <2>3, <3>1, BatchIsInterval
      <4>2. m \in Batch
        BY <1>1, <2>2, <2>3, <2>6, <3>1, <4>1, BatchIsInterval
      <4>3. QED
        BY <1>5, <2>1, <2>6, <4>2 DEF Poll
    <3>2. CASE m <= From
      <4>1. cursor # NoCursor /\ cursor.run = runtime /\ From = cursor.at
        BY <1>1, <1>5, <2>2, <3>2 DEF Poll, From
      <4>2. m \in base + 1 .. cursor.at
        BY <1>1, <2>2, <2>3, <3>2, <4>1, BatchIsInterval
      <4>3. Taken(m)
        BY <4>1, <4>2 DEF CursorBehind, NothingPassedOver
      <4>4. QED
        BY <2>4, <4>3, TakenStays
    <3>3. QED
      BY <1>1, <2>2, <3>1, <3>2, BatchIsInterval
  <2>7. QED
    BY <2>5, <2>6
<1>6. ASSUME ~Poll, UNCHANGED <<runtime, base, after>>
      PROVE  TickCovers'
  <2>1. SUFFICES ASSUME after.run = runtime, NEW m \in base + 1 .. after.at
                 PROVE  \/ Taken(m)'
                        \/ phase' = "recover" /\ (m \in todo' \/ m \in polled')
                        \/ phase' = "decode" /\ m \in polled'
                        \/ phase' = "handle" /\ m \in todo'
    BY <1>6 DEF TickCovers
  <2>2. m \in Arrived
    BY <1>1, <2>1 DEF CursorsInRange, CursorInRange, Arrived
  <2>3. CASE Taken(m)
    BY <2>2, <2>3, TakenStays
  <2>4. CASE ~Taken(m)
    <3>1. \/ phase = "recover" /\ (m \in todo \/ m \in polled)
          \/ phase = "decode" /\ m \in polled
          \/ phase = "handle" /\ m \in todo
      BY <2>1, <2>4 DEF TickCovers
    <3>2. after.run # -1
      BY <1>1, <2>1
    <3>3. CASE \E n \in polled : Quarantine(n)
      BY <2>4, <3>1, <3>3 DEF Quarantine, NextUndecoded, Taken
    <3>4. CASE \E n \in todo : Skip(n)
      <4>1. PICK n \in todo : Skip(n)
        BY <3>4
      <4>2. Taken(n)
        BY <4>1 DEF Skip, AlreadyProcessed, MarkedIsTaken
      <4>3. n # m
        BY <2>4, <4>2
      <4>4. QED
        BY <3>1, <4>1, <4>3 DEF Skip
    <3>5. CASE Mark
      <4>1. Taken(item)
        BY <3>5 DEF Mark, StageKnows
      <4>2. QED
        BY <2>4, <3>1, <3>5, <4>1 DEF Mark, NextEnvelope
    <3>6. CASE Refuse
      <4>1. item \in Messages /\ item \in Arrived
        BY <3>6, BoundsAssumption DEF Refuse, TypeOK, WorkerTypeOK, DaemonTypeOK, Arrived, Messages
      <4>2. acts'[item] > 0
        <5>1. acts \in [Messages -> 0..Many]
          BY DEF TypeOK, HubTypeOK
        <5>2. OneMore(acts[item]) \in 1..Many
          BY <4>1, <5>1, OneMoreInRange
        <5>3. acts' = [acts EXCEPT ![item] = OneMore(acts[item])]
          BY <3>6 DEF Refuse, Acted
        <5>4. acts'[item] = OneMore(acts[item])
          BY <4>1, <5>1, <5>3
        <5>5. \A n \in 1..Many : n > 0
          BY DEF Many
        <5>6. QED
          BY <5>2, <5>4, <5>5
      <4>3. QED
        <5>1. CASE m = item
          BY <3>6, <4>2, <5>1 DEF Refuse, Taken, Kind, daemon
        <5>2. CASE m # item
          BY <3>1, <3>6, <5>2 DEF Refuse, NextEnvelope
        <5>3. QED
          BY <5>1, <5>2
    <3>7. CASE Recovered
      BY <3>1, <3>7 DEF Recovered
    <3>8. CASE Decoded
      BY <3>1, <3>8 DEF Decoded
    <3>9. CASE UNCHANGED <<after, phase, polled, todo>>
      BY <3>1, <3>9
    <3>10. after' # NoCursor
      BY <1>6, <3>2 DEF NoCursor
    <3>11. QED
      BY <1>6, <3>3, <3>4, <3>5, <3>6, <3>7, <3>8, <3>9, <3>10, TickMoves
  <2>5. QED
    BY <2>3, <2>4
<1>7. CASE runtime' = runtime + 1 /\ UNCHANGED after
  <2>1. after.run <= runtime /\ after.run \in Int
    BY BoundsAssumption DEF CursorsInRange, CursorInRange, TypeOK, WorkerTypeOK, Cursors, NoCursor
  <2>2. QED
    BY <1>1, <1>7, <2>1 DEF TickCovers
<1>8. UNCHANGED after \/ after' = NoCursor \/ Poll
  BY AfterMoves DEF Crash
<1>9. QED
  BY <1>4, <1>5, <1>6, <1>7, <1>8, StreamMoves

\* Logging adds to the marks, in memory or stored, at most the entry logged.
LEMMA LogMarks ==
  ASSUME TypeOK, NEW e \in Entries, NEW persisted \in BOOLEAN, Log(e, persisted)
  PROVE  \A m \in Marks(events)' \cup Marks(storedEvents)' :
           m \in Marks(events) \cup Marks(storedEvents) \/ e = Entry("mark", m)
<1>1. events \in Seq(Entries) /\ storedEvents \in Seq(Entries)
  BY DEF TypeOK, HubTypeOK
<1>2. Marks(events)' = Marks(Kept(Append(events, e)))
  BY DEF Log, Marks
<1>3. Marks(storedEvents)' = Marks(Kept(Append(storedEvents, e))) \/ Marks(storedEvents)' = Marks(storedEvents)
  BY DEF Log, Marks
<1>4. QED
  BY <1>1, <1>2, <1>3, NoNewMarks

\* The only new mark is that of the message whose handler has reached it.
LEMMA MarksMove ==
  ASSUME TypeOK, [Next]_vars
  PROVE  \A m \in Marks(events)' \cup Marks(storedEvents)' :
           m \in Marks(events) \cup Marks(storedEvents) \/ (m = item /\ stage = "mark")
<1>1. \/ UNCHANGED <<events, storedEvents>>
      \/ UNCHANGED storedEvents /\ events' = storedEvents
      \/ \E persisted \in BOOLEAN : Log(Other, persisted)
      \/ \E persisted \in BOOLEAN : stage = "mark" /\ Log(Entry("mark", item), persisted)
      \/ \E m \in polled, persisted \in BOOLEAN : Log(Entry("quarantine", m), persisted)
  BY DEF Next, vars, hub, Arrive, DaemonRestart, OtherEvent, ChangeReady, Crash, Tick, Poll,
         ResetCursor, Recovered, Decode, Quarantine, DecodeErrs, Decoded, Handle, Undecodable,
         Skip, Begin, TouchFails, Record, Act, ActQuietly, NobodyToRelayTo, Refuse, CommandErrs,
         ActFails, Mark, MarkFails, Save
<1>2. \A m \in polled \cup {item} : m \in 0..MaxMessages
  BY BoundsAssumption DEF TypeOK, WorkerTypeOK, DaemonTypeOK, Arrived
<1>3. CASE UNCHANGED <<events, storedEvents>>
  BY <1>3 DEF Marks
<1>4. CASE UNCHANGED storedEvents /\ events' = storedEvents
  BY <1>4 DEF Marks
<1>5. ASSUME NEW persisted \in BOOLEAN, Log(Other, persisted)
      PROVE  Marks(events)' \cup Marks(storedEvents)' \subseteq Marks(events) \cup Marks(storedEvents)
  <2>1. Other \in Entries /\ \A m \in Messages : Other # Entry("mark", m)
    BY EntryInEntries, BoundsAssumption DEF Other, Entry
  <2>2. QED
    BY <1>5, <2>1, LogMarks DEF Marks
<1>6. ASSUME NEW persisted \in BOOLEAN, Log(Entry("mark", item), persisted)
      PROVE  \A m \in Marks(events)' \cup Marks(storedEvents)' :
               m \in Marks(events) \cup Marks(storedEvents) \/ m = item
  <2>1. Entry("mark", item) \in Entries
    BY <1>2, EntryInEntries
  <2>2. \A m : Entry("mark", item) = Entry("mark", m) => m = item
    BY DEF Entry
  <2>3. QED
    BY <1>6, <2>1, <2>2, LogMarks
<1>7. ASSUME NEW n \in polled, NEW persisted \in BOOLEAN, Log(Entry("quarantine", n), persisted)
      PROVE  Marks(events)' \cup Marks(storedEvents)' \subseteq Marks(events) \cup Marks(storedEvents)
  <2>1. Entry("quarantine", n) \in Entries
    BY <1>2, EntryInEntries
  <2>2. \A m : Entry("quarantine", n) # Entry("mark", m)
    BY DEF Entry
  <2>3. QED
    BY <1>7, <2>1, <2>2, LogMarks
<1>8. QED
  BY <1>1, <1>3, <1>4, <1>5, <1>6, <1>7

\* A message is marked only when it was taken.
LEMMA MarkedStep ==
  ASSUME IInv, [Next]_vars
  PROVE  MarkedIsTaken'
<1> USE DEF IInv
<1>1. stage = "mark" => item \in Arrived /\ Taken(item)
  BY DEF StageKnows, TypeOK, WorkerTypeOK
<1>2. \A m \in Marks(events)' \cup Marks(storedEvents)' : m \in Arrived /\ Taken(m)
  BY <1>1, MarksMove DEF MarkedIsTaken
<1>3. \A m \in Marks(events)' \cup Marks(storedEvents)' : m \in Arrived' /\ Taken(m)'
  BY <1>2, TakenStays, NothingUndone
<1>4. QED
  BY <1>3 DEF MarkedIsTaken

\* How a handler goes from one stage to the next.
LEMMA StageMoves ==
  ASSUME TypeOK, [Next]_vars
  PROVE  \/ UNCHANGED <<item, stage>>
         \/ item' = 0 /\ stage' = "pick"
         \/ \E m \in todo : Begin(m)
         \/ Record /\ storedRows' = [storedRows EXCEPT ![item] = OneMore(@)] /\ item' = item /\ stage' = "act"
         \/ Act \/ ActQuietly \/ NobodyToRelayTo
BY DEF Next, vars, daemon, worker, hub, Arrive, DaemonRestart, OtherEvent, ChangeReady, Crash, Tick,
       Poll, ResetCursor, Recovered, Decode, Quarantine, DecodeErrs, Decoded, Handle, Undecodable,
       Skip, Begin, TouchFails, Record, Act, ActQuietly, NobodyToRelayTo, Refuse, CommandErrs,
       ActFails, Mark, MarkFails, Save, Abandon, NextEnvelope

\* Messages are relayed, carried out and answered, and listed, by the handler
\* that has them at hand, each in the stage of its own.
LEMMA HubMoves ==
  ASSUME TypeOK, [Next]_vars
  PROVE  /\ UNCHANGED acts \/ (Acted /\ stage = "act")
         /\ \/ UNCHANGED rows
            \/ Crash
            \/ Record /\ rows' = [rows EXCEPT ![item] = OneMore(@)] /\ stage = "record"
BY DEF Next, vars, daemon, worker, hub, Arrive, DaemonRestart, OtherEvent, ChangeReady, Crash, Tick,
       Poll, ResetCursor, Recovered, Decode, Quarantine, DecodeErrs, Decoded, Handle, Undecodable,
       Skip, Begin, TouchFails, Record, Act, ActQuietly, NobodyToRelayTo, Refuse, CommandErrs,
       ActFails, Mark, MarkFails, Save, Abandon, NextEnvelope

\* The message at hand is one that arrived, and acting on it counts.
LEMMA ItemCounts ==
  ASSUME TypeOK, item # 0
  PROVE  /\ item \in Arrived /\ item \in Messages
         /\ Acted => acts'[item] > 0 /\ \A m \in Messages : m # item => acts'[m] = acts[m]
         /\ storedRows' = [storedRows EXCEPT ![item] = OneMore(@)] => storedRows'[item] > 0
<1>1. item \in Arrived /\ item \in Messages
  BY BoundsAssumption DEF TypeOK, WorkerTypeOK, DaemonTypeOK, Arrived, Messages
<1>2. acts \in [Messages -> 0..Many] /\ storedRows \in [Messages -> 0..Many]
  BY DEF TypeOK, HubTypeOK
<1>3. OneMore(acts[item]) \in 1..Many /\ OneMore(storedRows[item]) \in 1..Many
  BY <1>1, <1>2, OneMoreInRange
<1>4. \A n \in 1..Many : n > 0
  BY DEF Many
<1>5. ASSUME Acted
      PROVE  acts'[item] = OneMore(acts[item]) /\ \A m \in Messages : m # item => acts'[m] = acts[m]
  BY <1>1, <1>2, <1>5 DEF Acted
<1>6. ASSUME storedRows' = [storedRows EXCEPT ![item] = OneMore(@)]
      PROVE  storedRows'[item] = OneMore(storedRows[item])
  BY <1>1, <1>2, <1>6
<1>7. QED
  BY <1>1, <1>3, <1>4, <1>5, <1>6

\* Each stage of a handler finds what the stages before it left.
LEMMA StageStep ==
  ASSUME IInv, [Next]_vars
  PROVE  StageKnows'
<1> USE DEF IInv
<1>1. TypeOK'
  BY TypeStep
<1>2. item # 0 => item \in Arrived /\ item \in Messages /\ arrived'[item] = Kind(item)
  <2>1. \A m \in Arrived : arrived'[m] = Kind(m)
    BY NothingUndone DEF Kind
  <2>2. QED
    BY <2>1, ItemCounts
<1>3. stage # "pick" => item # 0
  BY DEF TypeOK, WorkerTypeOK
<1>4. CASE UNCHANGED <<item, stage>>
  <2>1. item # 0 => (storedRows[item] > 0 => storedRows'[item] > 0)
    <3>1. item # 0 => storedRows[item] <= storedRows'[item] /\ storedRows[item] \in Int /\ storedRows'[item] \in Int
      <4>1. storedRows \in [Messages -> 0..Many] /\ storedRows' \in [Messages -> 0..Many]
        BY <1>1 DEF TypeOK, HubTypeOK
      <4>2. QED
        BY <1>2, <4>1, NothingUndone DEF Many
    <3>2. QED
      BY <3>1
  <2>2. stage = "mark" => Taken(item)'
    <3>1. stage = "mark" => (\A m \in Arrived : Taken(m) => Taken(m)')
      BY TakenStays
    <3>2. QED
      BY <1>2, <1>3, <1>4, <3>1 DEF StageKnows, Taken, Kind
  <2>3. QED
    BY <1>2, <1>3, <1>4, <2>1, <2>2 DEF StageKnows, Kind
<1>5. CASE item' = 0 /\ stage' = "pick"
  BY <1>5 DEF StageKnows
<1>6. CASE \E m \in todo : Begin(m)
  BY <1>6 DEF Begin, StageKnows, Kind, daemon
<1>7. CASE Record /\ storedRows' = [storedRows EXCEPT ![item] = OneMore(@)] /\ item' = item /\ stage' = "act"
  <2>1. storedRows'[item] > 0
    BY <1>3, <1>7, ItemCounts DEF Record
  <2>2. QED
    BY <1>2, <1>3, <1>7, <2>1 DEF StageKnows, Record, Kind, daemon
<1>8. CASE Act \/ ActQuietly \/ NobodyToRelayTo
  <2>1. item' = item /\ stage' = "mark" /\ stage = "act" /\ UNCHANGED <<arrived, storedRows>>
    BY <1>8 DEF Act, ActQuietly, NobodyToRelayTo, daemon, hub
  <2>2. Kind(item) # "chat" => Acted
    BY <1>8 DEF Act, ActQuietly, NobodyToRelayTo
  <2>3. Kind(item) \in {"chat", "command", "demanding"}
    <3>1. Kind(item) \in Kinds
      BY <1>2, <1>3, <2>1 DEF TypeOK, DaemonTypeOK, Arrived, Kind
    <3>2. Kind(item) # "refused"
      BY <1>8 DEF Act, ActQuietly, NobodyToRelayTo
    <3>3. QED
      BY <1>3, <2>1, <3>1, <3>2, BoundsAssumption DEF AllKinds, StageKnows
  <2>4. Kind(item) # "chat" => acts'[item] > 0
    BY <1>3, <2>1, <2>2, ItemCounts
  <2>5. QED
    BY <1>3, <2>1, <2>3, <2>4 DEF StageKnows, Kind, Taken
<1>9. QED
  BY <1>4, <1>5, <1>6, <1>7, <1>8, StageMoves

\* Nothing is done about a message before it arrives.
LEMMA NotYetStep ==
  ASSUME IInv, [Next]_vars
  PROVE  NotYet'
<1> USE DEF IInv
<1>1. \A m \in Messages : m \notin Arrived' => m \notin Arrived
  BY NothingUndone
<1>2. \A m \in Messages : m \notin Arrived => acts'[m] = 0
  BY HubMoves, ItemCounts DEF NotYet, TypeOK, WorkerTypeOK
<1>3. \A m \in Messages : m \notin Arrived => rows'[m] = 0
  <2>1. CASE UNCHANGED rows
    BY <2>1 DEF NotYet
  <2>2. CASE Crash
    <3>1. rows \in [Messages -> 0..Many] /\ storedRows \in [Messages -> 0..Many]
      BY DEF TypeOK, HubTypeOK
    <3>2. \A m \in Messages : rows[m] = 0 => storedRows[m] = 0
      BY <3>1 DEF MemoryHasAll, Many
    <3>3. QED
      BY <2>2, <3>2 DEF Crash, NotYet
  <2>3. CASE rows' = [rows EXCEPT ![item] = OneMore(@)] /\ stage = "record"
    <3>1. item \in Arrived
      BY <2>3, ItemCounts DEF TypeOK, WorkerTypeOK
    <3>2. QED
      BY <2>3, <3>1 DEF NotYet, TypeOK, HubTypeOK
  <2>4. QED
    BY <2>1, <2>2, <2>3, HubMoves
<1>4. QED
  BY <1>1, <1>2, <1>3 DEF NotYet

\* The list in memory has all that is stored.
LEMMA MemoryStep ==
  ASSUME IInv, [Next]_vars
  PROVE  MemoryHasAll'
<1> USE DEF IInv
<1>1. CASE UNCHANGED <<rows, storedRows>>
  BY <1>1 DEF MemoryHasAll
<1>2. CASE Crash
  <2>1. rows' = storedRows /\ storedRows' = storedRows /\ storedRows \in [Messages -> 0..Many]
    BY <1>2 DEF Crash, TypeOK, HubTypeOK
  <2>2. QED
    BY <2>1 DEF MemoryHasAll, Many
<1>3. CASE Record
  <2>1. rows \in [Messages -> 0..Many] /\ storedRows \in [Messages -> 0..Many]
    BY DEF TypeOK, HubTypeOK
  <2>2. item \in Messages
    BY <1>3, ItemCounts DEF Record, TypeOK, WorkerTypeOK
  <2>3. \A m \in Messages : rows[m] \in 0..2 /\ storedRows[m] \in 0..2 /\ storedRows[m] <= rows[m]
    BY <2>1 DEF MemoryHasAll, Many
  <2>4. \A m \in Messages : /\ rows'[m] = IF m = item THEN OneMore(rows[m]) ELSE rows[m]
                            /\ \/ storedRows'[m] = storedRows[m]
                               \/ m = item /\ storedRows'[m] = OneMore(storedRows[m])
    BY <1>3, <2>1, <2>2 DEF Record
  <2>5. \A m \in Messages : storedRows'[m] <= rows'[m]
    BY <2>3, <2>4 DEF OneMore, Many
  <2>6. QED
    BY <2>5 DEF MemoryHasAll
<1>4. QED
  BY <1>1, <1>2, <1>3
  DEF Next, vars, hub, Arrive, DaemonRestart, OtherEvent, ChangeReady, Tick, Poll,
      ResetCursor, Recovered, Decode, Quarantine, DecodeErrs, Decoded, Handle, Undecodable,
      Skip, Begin, TouchFails, Act, ActQuietly, NobodyToRelayTo, Refuse, CommandErrs,
      ActFails, Mark, MarkFails, Save

\* A relay comes after its row.
LEMMA RelayedStep ==
  ASSUME IInv, [Next]_vars
  PROVE  RelayedIsStored'
<1> USE DEF IInv
<1>1. SUFFICES ASSUME NEW m \in Arrived', Kind(m)' = "chat", acts'[m] > 0
               PROVE  storedRows'[m] > 0
  BY DEF RelayedIsStored
<1>2. m \in Messages
  BY TypeStep, BoundsAssumption DEF TypeOK, DaemonTypeOK, Arrived, Messages
<1>3. /\ storedRows[m] \in Int /\ storedRows'[m] \in Int /\ storedRows[m] <= storedRows'[m]
  <2>1. storedRows \in [Messages -> 0..Many] /\ storedRows' \in [Messages -> 0..Many]
    BY TypeStep DEF TypeOK, HubTypeOK
  <2>2. QED
    BY <1>2, <2>1, NothingUndone DEF Many
<1>4. CASE m = item /\ stage = "act"
  <2>1. item # 0
    BY <1>4 DEF TypeOK, WorkerTypeOK
  <2>2. Kind(m) = "chat"
    BY <1>1, <1>4, <2>1, ItemCounts, NothingUndone
  <2>3. storedRows[m] > 0
    BY <1>4, <2>2 DEF StageKnows
  <2>4. QED
    BY <1>3, <2>3
<1>5. CASE acts'[m] = acts[m]
  <2>1. m \in Arrived
    BY <1>1, <1>2, <1>5 DEF NotYet
  <2>2. Kind(m) = "chat" /\ acts[m] > 0
    BY <1>1, <1>5, <2>1, NothingUndone
  <2>3. storedRows[m] > 0
    BY <2>1, <2>2 DEF RelayedIsStored
  <2>4. QED
    BY <1>3, <2>3
<1>6. acts'[m] = acts[m] \/ (m = item /\ stage = "act")
  BY <1>2, HubMoves, ItemCounts DEF TypeOK, WorkerTypeOK
<1>7. QED
  BY <1>4, <1>5, <1>6

\* The envelopes of a batch are begun from the first on.
LEMMA OrderStep ==
  ASSUME IInv, [Next]_vars
  PROVE  ItemIsFirst'
<1> USE DEF IInv
<1>1. item # 0 => item \in todo
  BY DEF TypeOK, WorkerTypeOK
<1>2. CASE UNCHANGED <<after, phase, polled, todo>>
  <2>1. item' = item \/ item' = 0 \/ \E m \in todo : Begin(m)
    BY StageMoves DEF Act, ActQuietly, NobodyToRelayTo
  <2>2. CASE \E m \in todo : Begin(m)
    BY <1>2, <2>2 DEF Begin, Turn, ItemIsFirst
  <2>3. CASE item' = item \/ item' = 0
    BY <1>2, <2>3 DEF ItemIsFirst
  <2>4. QED
    BY <2>1, <2>2, <2>3
<1>3. CASE after' = NoCursor /\ polled' = {} /\ phase' = "idle"
  BY <1>3 DEF ItemIsFirst
<1>4. CASE Poll
  <2>1. polled' = Batch /\ after'.at = BatchEnd /\ phase' # "handle"
    BY <1>4 DEF Poll
  <2>2. QED
    BY <2>1, BatchIsInterval DEF ItemIsFirst
<1>5. CASE Recovered
  BY <1>5 DEF Recovered, ItemIsFirst
<1>6. CASE \E m \in polled : Quarantine(m)
  BY <1>6 DEF Quarantine, NextUndecoded, ItemIsFirst
<1>7. CASE Decoded
  <2>1. item = 0 /\ item' = 0
    BY <1>7 DEF Decoded, TypeOK, WorkerTypeOK
  <2>2. QED
    BY <1>7, <2>1 DEF Decoded, ItemIsFirst
<1>8. CASE \E m \in todo : Skip(m)
  <2>1. item' = 0
    BY <1>8 DEF Skip, Turn, TypeOK, WorkerTypeOK
  <2>2. QED
    BY <1>8, <2>1 DEF Skip, ItemIsFirst
<1>9. CASE Refuse \/ Mark
  BY <1>9 DEF Refuse, Mark, NextEnvelope, ItemIsFirst
<1>10. QED
  BY <1>2, <1>3, <1>4, <1>5, <1>6, <1>7, <1>8, <1>9, TickMoves

\* The inductive invariant holds at the start.
LEMMA InvInit ==
  ASSUME Init
  PROVE  IInv
<1>1. TypeOK
  BY TypeInit
<1>2. CursorsInRange /\ CursorBehind /\ TickCovers
  BY DEF Init, CursorsInRange, CursorInRange, CursorBehind, NothingPassedOver, TickCovers, NoCursor
<1>3. Marks(events) \cup Marks(storedEvents) = {}
  BY DEF Init, Marks
<1>4. Arrived = {}
  BY DEF Init, Arrived
<1>5. MarkedIsTaken /\ StageKnows /\ ItemIsFirst /\ NotYet /\ MemoryHasAll /\ RelayedIsStored
  BY <1>3, <1>4 DEF MemoryHasAll, Init, MarkedIsTaken, StageKnows, ItemIsFirst, NotYet, RelayedIsStored
<1>6. QED
  BY <1>1, <1>2, <1>5 DEF IInv

\* Every step of the system keeps the inductive invariant.
LEMMA InvStep ==
  ASSUME IInv, [Next]_vars
  PROVE  IInv'
<1>1. TypeOK
  BY DEF IInv
<1>2. TypeOK' /\ CursorsInRange' /\ CursorBehind' /\ TickCovers'
  BY <1>1, TypeStep, RangeStep, BehindStep, TickStep
<1>3. MarkedIsTaken' /\ StageKnows' /\ ItemIsFirst' /\ NotYet' /\ MemoryHasAll' /\ RelayedIsStored'
  BY MarkedStep, StageStep, OrderStep, NotYetStep, MemoryStep, RelayedStep
<1>4. QED
  BY <1>2, <1>3 DEF IInv

\* The inductive invariant holds in every state the hub can reach.
LEMMA InvCorrect == Spec => []IInv
BY InvInit, InvStep, PTL DEF Spec

-----------------------------------------------------------------------------
(* The properties.                                                         *)

\* No message is lost by the cursor: neither the cursor in memory nor the
\* stored one passes a message of the runtime that was not taken.
THEOREM NothingIsPassedOver == Spec => []NothingPassedOver
<1>1. IInv => NothingPassedOver
  BY DEF IInv, CursorBehind
<1>2. QED
  BY <1>1, InvCorrect, PTL

\* Whatever subscribers may have received, the stored message list has.
THEOREM RelaysAreStored == Spec => []RelayedIsStored
<1>1. IInv => RelayedIsStored
  BY DEF IInv
<1>2. QED
  BY <1>1, InvCorrect, PTL

\* When a message is acted on for the first time in a batch, all before it in
\* the stream were taken.
LEMMA StepInOrder ==
  ASSUME IInv, [Next]_vars,
         NEW m \in Arrived, phase = "handle", acts[m] = 0, acts'[m] > 0, after.run = runtime,
         NEW n \in base + 1 .. m - 1
  PROVE  Taken(n)
<1> USE DEF IInv
<1>1. m \in Messages
  BY BoundsAssumption DEF TypeOK, DaemonTypeOK, Arrived, Messages
<1>2. item # 0 /\ m = item
  BY <1>1, HubMoves, ItemCounts DEF TypeOK, WorkerTypeOK
<1>3. item \in todo /\ m \in Int /\ base \in Int
  BY <1>1, <1>2 DEF TypeOK, WorkerTypeOK, DaemonTypeOK, Messages
<1>4. m <= after.at /\ after.at \in Int
  <2>1. after.at \in Int
    BY BoundsAssumption DEF TypeOK, WorkerTypeOK, Cursors, NoCursor
  <2>2. QED
    BY <1>2, <1>3, <2>1 DEF ItemIsFirst
<1>5. n \in base + 1 .. after.at
  BY <1>3, <1>4
<1>6. n \notin todo
  BY <1>2, <1>3 DEF ItemIsFirst
<1>7. QED
  BY <1>5, <1>6 DEF TickCovers

\* Commands take effect in the order of the stream.
THEOREM CommandsKeepOrder == Spec => HandledInOrder
<1>1. ASSUME IInv, [Next]_vars
      PROVE  [\A m \in Arrived :
               phase = "handle" /\ acts[m] = 0 /\ acts'[m] > 0 /\ after.run = runtime
                 => \A n \in base + 1 .. m - 1 : Taken(n)]_vars
  BY <1>1, StepInOrder
<1>2. QED
  BY <1>1, InvCorrect, PTL DEF Spec, HandledInOrder

-----------------------------------------------------------------------------
(* A message is handled once.                                              *)

\* What was forgotten, or cut off, stays so; a mark is kept or forgotten.
LEMMA MarksKeep ==
  ASSUME TypeOK, [Next]_vars
  PROVE  /\ forgotten \subseteq forgotten' /\ cut \subseteq cut'
         /\ Marks(events) \subseteq Marks(events)' \cup forgotten'
<1>1. forgotten \subseteq forgotten' /\ cut \subseteq cut'
  BY DEF Next, vars, hub, Arrive, DaemonRestart, OtherEvent, ChangeReady, Crash, Tick, Poll,
         ResetCursor, Recovered, Decode, Quarantine, DecodeErrs, Decoded, Handle, Undecodable,
         Skip, Begin, TouchFails, Record, Act, ActQuietly, NobodyToRelayTo, Refuse, CommandErrs,
         ActFails, Mark, MarkFails, Save, Log
<1>2. \/ UNCHANGED events
      \/ forgotten' = forgotten \cup (Marks(events) \ Marks(events'))
  BY DEF Next, vars, hub, Arrive, DaemonRestart, OtherEvent, ChangeReady, Crash, Tick, Poll,
         ResetCursor, Recovered, Decode, Quarantine, DecodeErrs, Decoded, Handle, Undecodable,
         Skip, Begin, TouchFails, Record, Act, ActQuietly, NobodyToRelayTo, Refuse, CommandErrs,
         ActFails, Mark, MarkFails, Save, Log
<1>3. Marks(events)' = Marks(events')
  BY DEF Marks
<1>4. QED
  BY <1>1, <1>2, <1>3 DEF Marks

\* Only the marking of a message adds its mark to the list in memory, unless
\* the list is read back from the store.
LEMMA NewMarks ==
  ASSUME TypeOK, [Next]_vars, ~Crash, ~Mark, ~MarkFails
  PROVE  Marks(events)' \subseteq Marks(events)
<1>1. \/ UNCHANGED events
      \/ \E persisted \in BOOLEAN : Log(Other, persisted)
      \/ \E m \in polled, persisted \in BOOLEAN : Log(Entry("quarantine", m), persisted)
  BY DEF Next, vars, hub, Arrive, DaemonRestart, OtherEvent, ChangeReady, Tick, Poll,
         ResetCursor, Recovered, Decode, Quarantine, DecodeErrs, Decoded, Handle, Undecodable,
         Skip, Begin, TouchFails, Record, Act, ActQuietly, NobodyToRelayTo, Refuse, CommandErrs,
         ActFails, Save
<1>2. \A e \in Entries : \A persisted \in BOOLEAN :
        Log(e, persisted) /\ (\A m \in Messages : e # Entry("mark", m)) => Marks(events)' \subseteq Marks(events)
  <2>1. SUFFICES ASSUME NEW e \in Entries, NEW persisted \in BOOLEAN, Log(e, persisted),
                        \A m \in Messages : e # Entry("mark", m)
                 PROVE  Marks(events)' \subseteq Marks(events)
    OBVIOUS
  <2>2. events \in Seq(Entries) /\ Marks(events)' = Marks(Kept(Append(events, e)))
    BY <2>1 DEF Log, Marks, TypeOK, HubTypeOK
  <2>3. Marks(Kept(Append(events, e))) \subseteq Messages
    BY DEF Marks
  <2>4. QED
    BY <2>1, <2>2, <2>3, NoNewMarks
<1>3. Other \in Entries /\ \A m \in Messages : Other # Entry("mark", m)
  BY EntryInEntries, BoundsAssumption DEF Other, Entry
<1>4. \A m \in polled : Entry("quarantine", m) \in Entries /\ \A n \in Messages : Entry("quarantine", m) # Entry("mark", n)
  <2>1. \A m \in polled : m \in 0..MaxMessages
    BY BoundsAssumption DEF TypeOK, WorkerTypeOK, DaemonTypeOK, Arrived
  <2>2. \A m \in polled : Entry("quarantine", m) \in Entries
    BY <2>1, EntryInEntries
  <2>3. QED
    BY <2>2 DEF Entry
<1>5. CASE UNCHANGED events
  BY <1>5 DEF Marks
<1>6. QED
  BY <1>1, <1>2, <1>3, <1>4, <1>5

\* Every kind of step, as far as one message is concerned.
LEMMA MessageMoves ==
  ASSUME TypeOK, [Next]_vars
  PROVE  \/ UNCHANGED <<acts, rows, item, stage>> /\ ~Crash /\ ~Mark /\ ~MarkFails
         \/ Crash
         \/ \E m \in todo : Begin(m)
         \/ TouchFails \/ Record
         \/ Acted /\ stage = "act" /\ stage' = "mark" /\ UNCHANGED <<rows, item>> /\ ~Refusing
         \/ NobodyToRelayTo \/ Refuse \/ CommandErrs \/ ActFails
         \/ Mark \/ MarkFails
<1>1. stage = "pick" <=> item = 0
  BY DEF TypeOK, WorkerTypeOK
<1>2. phase \notin {"recover", "handle"} => item = 0
  BY DEF TypeOK, WorkerTypeOK
<1>3. todo = {} => item = 0
  BY DEF TypeOK, WorkerTypeOK
<1>4. QED
  BY <1>1, <1>2, <1>3
  DEF Next, vars, worker, hub, Arrive, DaemonRestart, OtherEvent, ChangeReady, Tick, Poll,
      ResetCursor, Recovered, Decode, Quarantine, NextUndecoded, DecodeErrs, Decoded, Handle,
      Undecodable, Turn, Skip, Act, ActQuietly, Save, Abandon

\* A message without a mark is handled by nobody but the handler that has it.
LEMMA OnceForStep ==
  ASSUME IInv, OnceSoFar, [Next]_vars,
         NEW m \in Arrived, m \notin forgotten', m \notin cut', Kind(m) # "refused"
  PROVE  OnceFor(m)'
<1> USE DEF IInv
<1>1. m \in Messages /\ m # 0
  BY BoundsAssumption DEF TypeOK, DaemonTypeOK, Arrived, Messages
<1>2. /\ acts \in [Messages -> 0..2] /\ rows \in [Messages -> 0..2] /\ storedRows \in [Messages -> 0..2]
      /\ storedRows[m] <= rows[m]
  BY <1>1 DEF TypeOK, HubTypeOK, MemoryHasAll, Many
<1>3. OnceFor(m) /\ (rows[m] > 0 => Kind(m) = "chat")
  BY MarksKeep DEF OnceSoFar
<1>4. m \in Marks(events) => m \in Marks(events)'
  BY MarksKeep
<1>5. ~Crash /\ ~Mark /\ ~MarkFails => (m \in Marks(events)' <=> m \in Marks(events))
  BY <1>4, NewMarks
<1>6. stage = "pick" <=> item = 0
  BY DEF TypeOK, WorkerTypeOK
<1>7. acts[m] \in 0..2 /\ rows[m] \in 0..2 /\ storedRows[m] \in 0..2
  BY <1>1, <1>2
<1>8. Acted => acts' = [acts EXCEPT ![item] = OneMore(acts[item])]
  BY DEF Acted
<1>9. CASE UNCHANGED <<acts, rows, item, stage>> /\ ~Crash /\ ~Mark /\ ~MarkFails
  BY <1>3, <1>5, <1>9 DEF OnceFor
<1>10. CASE Crash
  <2>1. m \notin Marks(events) => acts[m] = 0 /\ rows[m] = 0
    <3>1. m \notin Begun
      BY <1>10 DEF Crash
    <3>2. QED
      BY <1>3, <1>7, <3>1 DEF OnceFor, Begun
  <2>2. acts' = acts /\ rows' = storedRows /\ item' = 0
    BY <1>10 DEF Crash
  <2>3. QED
    BY <1>1, <1>2, <1>3, <1>4, <1>7, <2>1, <2>2 DEF OnceFor
<1>11. CASE \E n \in todo : Begin(n)
  <2>1. UNCHANGED <<acts, rows>> /\ item = 0 /\ ~Crash /\ ~Mark /\ ~MarkFails
    BY <1>6, <1>11 DEF Begin, Turn, hub, Crash, Mark, MarkFails
  <2>2. item' = m => m \notin Marks(events)
    BY <1>11 DEF Begin, AlreadyProcessed
  <2>3. QED
    BY <1>1, <1>3, <1>5, <2>1, <2>2 DEF OnceFor
<1>12. CASE ~Crash /\ TouchFails
  <2>1. UNCHANGED <<acts, rows>> /\ item' = 0 /\ stage \in {"record", "act"} /\ m \notin Begun
    BY <1>12 DEF TouchFails, hub, Abandon
  <2>2. ~Crash /\ ~Mark /\ ~MarkFails
    BY <1>12 DEF TouchFails, Mark, MarkFails
  <2>3. m \notin Marks(events) => acts[m] = 0 /\ rows[m] = 0
    BY <1>3, <1>7, <2>1 DEF OnceFor, Begun
  <2>4. QED
    BY <1>1, <1>3, <1>5, <2>1, <2>2, <2>3 DEF OnceFor
<1>13. CASE ~Crash /\ Record
  <2>1. UNCHANGED acts /\ stage = "record" /\ rows' = [rows EXCEPT ![item] = OneMore(rows[item])]
    BY <1>13 DEF Record
  <2>2. ~Crash /\ ~Mark /\ ~MarkFails
    BY <2>1, <1>13 DEF Record, Mark, MarkFails
  <2>3. CASE m = item
    <3>1. item' = item /\ stage' = "act"
      BY <1>13, <2>3 DEF Record
    <3>2. m \notin Marks(events) /\ acts[m] = 0 /\ rows[m] = 0
      BY <1>3, <1>7, <2>1, <2>3 DEF OnceFor
    <3>3. rows'[m] = 1
      BY <1>1, <1>2, <2>1, <2>3, <3>2 DEF OneMore, Many
    <3>4. QED
      BY <1>5, <2>1, <2>2, <2>3, <3>1, <3>2, <3>3 DEF OnceFor
  <2>4. CASE m # item
    <3>1. rows'[m] = rows[m] /\ item' # m
      BY <1>1, <1>2, <1>13, <2>1, <2>4 DEF Record, Abandon
    <3>2. QED
      BY <1>3, <1>5, <2>1, <2>2, <2>4, <3>1 DEF OnceFor
  <2>5. QED
    BY <2>3, <2>4
<1>14. CASE Acted /\ stage = "act" /\ stage' = "mark" /\ UNCHANGED <<rows, item>> /\ ~Refusing
  <2>1. ~Crash /\ ~Mark /\ ~MarkFails
    BY <1>14 DEF Crash, Mark, MarkFails
  <2>2. CASE m = item
    <3>1. m \notin Marks(events) /\ acts[m] = 0
      BY <1>3, <1>7, <1>14, <2>2 DEF OnceFor
    <3>2. acts'[m] = 1
      BY <1>1, <1>2, <1>8, <1>14, <2>2, <3>1 DEF OneMore, Many
    <3>3. QED
      BY <1>3, <1>5, <1>14, <2>1, <2>2, <3>1, <3>2 DEF OnceFor
  <2>3. CASE m # item
    <3>1. acts'[m] = acts[m]
      BY <1>1, <1>2, <1>8, <1>14, <2>3
    <3>2. QED
      BY <1>3, <1>5, <1>14, <2>1, <2>3, <3>1 DEF OnceFor
  <2>4. QED
    BY <2>2, <2>3
<1>15. CASE NobodyToRelayTo
  BY <1>3, <1>5, <1>15 DEF NobodyToRelayTo, hub, OnceFor, Crash, Mark, MarkFails
<1>16. CASE ~Crash /\ Refuse
  <2>1. item # m
    BY <1>16 DEF Refuse
  <2>2. acts'[m] = acts[m] /\ UNCHANGED rows /\ item' = 0 /\ ~Crash /\ ~Mark /\ ~MarkFails
    BY <1>1, <1>2, <1>8, <1>16, <2>1 DEF Refuse, NextEnvelope, Mark, MarkFails
  <2>3. QED
    BY <1>1, <1>3, <1>5, <2>1, <2>2 DEF OnceFor
<1>17. CASE ~Crash /\ CommandErrs
  <2>1. UNCHANGED <<acts, rows>> /\ item' = 0 /\ stage = "act" /\ Kind(item) = "demanding"
    BY <1>17 DEF CommandErrs, Refusing, Abandon, hub
  <2>2. ~Crash /\ ~Mark /\ ~MarkFails
    BY <1>17 DEF CommandErrs, Mark, MarkFails
  <2>3. m \notin Marks(events) => acts[m] = 0 /\ rows[m] = 0
    BY <1>3, <1>7, <2>1 DEF OnceFor
  <2>4. QED
    BY <1>1, <1>3, <1>5, <2>1, <2>2, <2>3 DEF OnceFor
<1>18. CASE ~Crash /\ ActFails
  <2>1. item # m
    BY <1>18 DEF ActFails
  <2>2. acts'[m] = acts[m] /\ UNCHANGED rows /\ item' = 0 /\ ~Crash /\ ~Mark /\ ~MarkFails
    BY <1>1, <1>2, <1>8, <1>18, <2>1 DEF ActFails, Abandon, Mark, MarkFails
  <2>3. QED
    BY <1>1, <1>3, <1>5, <2>1, <2>2 DEF OnceFor
<1>19. CASE Mark \/ MarkFails
  <2>1. UNCHANGED <<acts, rows>> /\ item' = 0 /\ stage = "mark"
    BY <1>19 DEF Mark, MarkFails, NextEnvelope, Abandon
  <2>2. CASE m = item
    <3>1. events' = Kept(Append(events, Entry("mark", m)))
      BY <1>19, <2>2 DEF Mark, MarkFails, Log
    <3>2. Entry("mark", m) \in Entries
      BY <1>1, EntryInEntries DEF Messages
    <3>3. m \in Marks(events)'
      BY <1>1, <3>1, <3>2, NewMarkIsKept DEF TypeOK, HubTypeOK, Marks
    <3>4. QED
      BY <1>1, <1>3, <2>1, <3>3 DEF OnceFor
  <2>3. CASE m # item
    BY <1>1, <1>3, <1>4, <2>1, <2>3 DEF OnceFor
  <2>4. QED
    BY <2>2, <2>3
<1>20. QED
  BY <1>9, <1>10, <1>11, <1>12, <1>13, <1>14, <1>15, <1>16, <1>17, <1>18, <1>19, MessageMoves

\* What a message has led to stays within what its mark allows.
LEMMA OnceStep ==
  ASSUME IInv, OnceSoFar, [Next]_vars
  PROVE  OnceSoFar'
<1> USE DEF IInv
<1>1. ASSUME NEW m \in Arrived', m \notin Arrived
      PROVE  acts'[m] = 0 /\ rows'[m] = 0 /\ item' # m
  <2>1. m \in Messages
    BY TypeStep, BoundsAssumption DEF TypeOK, DaemonTypeOK, Arrived, Messages
  <2>2. UNCHANGED arrived \/ \E k \in Kinds : Arrive(k)
    BY DEF Next, vars, daemon, Arrive, DaemonRestart, OtherEvent, ChangeReady, Crash, Tick, Poll,
           ResetCursor, Recovered, Decode, Quarantine, DecodeErrs, Decoded, Handle, Undecodable,
           Skip, Begin, TouchFails, Record, Act, ActQuietly, NobodyToRelayTo, Refuse, CommandErrs,
           ActFails, Mark, MarkFails, Save
  <2>3. \E k \in Kinds : Arrive(k)
    BY <1>1, <2>2 DEF Arrived
  <2>4. UNCHANGED <<acts, rows, item>> /\ item # m
    BY <1>1, <2>1, <2>3 DEF Arrive, worker, hub, TypeOK, WorkerTypeOK, Messages
  <2>5. QED
    BY <1>1, <2>1, <2>4 DEF NotYet
<1>2. ASSUME NEW m \in Arrived', m \notin forgotten', m \notin cut', Kind(m)' # "refused"
      PROVE  OnceFor(m)'
  <2>1. CASE m \in Arrived
    BY <1>2, <2>1, OnceForStep, NothingUndone
  <2>2. CASE m \notin Arrived
    BY <1>1, <1>2, <2>2 DEF OnceFor
  <2>3. QED
    BY <2>1, <2>2
<1>3. ASSUME NEW m \in Arrived', rows'[m] > 0
      PROVE  Kind(m)' = "chat"
  <2>1. m \in Arrived /\ m \in Messages
    BY <1>1, <1>3, BoundsAssumption DEF TypeOK, DaemonTypeOK, Arrived, Messages
  <2>2. rows[m] > 0 \/ (m = item /\ stage = "record")
    <3>1. CASE Crash
      <4>1. rows'[m] = storedRows[m] /\ storedRows[m] <= rows[m]
        BY <2>1, <3>1 DEF Crash, MemoryHasAll
      <4>2. storedRows[m] \in Int /\ rows[m] \in Int
        BY <2>1 DEF TypeOK, HubTypeOK, Many
      <4>3. QED
        BY <1>3, <4>1, <4>2
    <3>2. CASE rows' = [rows EXCEPT ![item] = OneMore(@)] /\ stage = "record"
      BY <1>3, <2>1, <3>2 DEF TypeOK, HubTypeOK
    <3>3. QED
      BY <1>3, <3>1, <3>2, HubMoves
  <2>3. Kind(m) = "chat"
    BY <2>1, <2>2 DEF OnceSoFar, StageKnows
  <2>4. QED
    BY <2>1, <2>3, NothingUndone
<1>4. QED
  BY <1>2, <1>3 DEF OnceSoFar

\* A message is listed, relayed and carried out once, as long as its mark is
\* kept and its handling was not cut off.
THEOREM MessagesAreHandledOnce == Spec => []HandledOnce
<1>1. Init => OnceSoFar
  BY DEF Init, OnceSoFar, Arrived
<1>2. IInv /\ OnceSoFar /\ [Next]_vars => OnceSoFar'
  BY OnceStep
<1>3. OnceSoFar => HandledOnce
  BY DEF OnceSoFar, OnceFor, HandledOnce
<1>4. QED
  BY <1>1, <1>2, <1>3, InvCorrect, PTL DEF Spec
=============================================================================
