--------------------------- MODULE InboundEvents ---------------------------
(***************************************************************************)
(* How the hub takes the messages reticulumd has received.  One worker     *)
(* polls the event stream from a cursor, recovers the retained history     *)
(* when the stream has a gap, quarantines what does not decode, handles    *)
(* the envelopes one by one and only then moves the cursor.  A message is  *)
(* recognised as handled by its mark among the system events, of which     *)
(* the hub keeps the last EventCap.                                        *)
(*                                                                         *)
(* Messages are numbered in the order in which they arrive; a message is   *)
(* told from another only by its kind:                                     *)
(*   chat      a text: listed, relayed to subscribers, marked              *)
(*   command   join, leave, pause, ...: carried out, answered, marked      *)
(*   demanding a command whose handler errs until something outside the    *)
(*             message is right: a subscription to a topic that has to     *)
(*             exist, a join of an identity that must not be banned        *)
(*   refused   a text the sanitizer rejects: answered, never marked        *)
(*   malformed its FIELD_COMMANDS cannot be read: quarantined              *)
(*   garbled   its payload cannot be decoded at all: an error              *)
(***************************************************************************)
EXTENDS Integers, Sequences

CONSTANTS
  Kinds,        \* the kinds of messages that arrive
  MaxMessages,  \* bound: messages that arrive
  StreamCap,    \* events reticulumd keeps for polling
  PollMax,      \* RETICULUMD_EVENT_POLL_MAX
  EventCap,     \* system events the hub keeps (200)
  MaxFaults,    \* bound: writes of the store that fail
  MaxCrashes,   \* bound: crashes of the hub
  MaxRestarts,  \* bound: restarts of reticulumd
  MaxOther,     \* bound: system events of other origin
  MaxChanges    \* bound: changes of what a demanding command needs

AllKinds == {"chat", "command", "demanding", "refused", "malformed", "garbled"}

ASSUME BoundsAssumption ==
  /\ Kinds \subseteq AllKinds
  /\ MaxMessages \in Nat /\ MaxFaults \in Nat /\ MaxCrashes \in Nat
  /\ MaxRestarts \in Nat /\ MaxOther \in Nat /\ MaxChanges \in Nat
  /\ StreamCap \in Nat \ {0} /\ PollMax \in Nat \ {0} /\ EventCap \in Nat \ {0}

VARIABLES
  arrived,      \* reticulumd: the kinds of the messages, in order; its history
  runtime,      \* reticulumd: which runtime a cursor must belong to
  base,         \* reticulumd: the last message of the runtimes before this one
  oldest,       \* reticulumd: the first message the stream still has
  cursor,       \* worker: where to poll from
  savedCursor,  \* store: the cursor setting
  phase,        \* worker: what the tick is doing
  polled,       \* worker: the messages of the batch
  after,        \* worker: the batch's next_cursor
  todo,         \* worker: messages still to be looked at in this phase
  item,         \* worker: the message being handled, or 0
  stage,        \* worker: what its handler does next
  events,       \* hub: the system events in memory
  storedEvents, \* store: the system events
  rows,         \* hub: for each chat, how often the message list has it
  storedRows,   \* store: the same
  acts,         \* how often a message was relayed, carried out or answered
  ready,        \* whether demanding commands can be carried out
  forgotten,    \* history: messages whose mark the hub lost at some time
  cut,          \* history: messages whose handling was cut off
  used          \* the bounds used up

daemon == <<arrived, runtime, base, oldest>>
worker == <<phase, polled, after, todo, item, stage>>
hub    == <<events, storedEvents, rows, storedRows, acts, forgotten>>
vars   == <<daemon, cursor, savedCursor, worker, hub, ready, cut, used>>

Messages == 1..MaxMessages
Many     == 2                       \* acts and rows are counted up to Many
OneMore(n) == IF n < Many THEN n + 1 ELSE Many

NoCursor == [run |-> -1, at |-> 0]
Cursors  == {NoCursor} \cup [run : 0..MaxRestarts, at : 0..MaxMessages]

Kind(m)  == arrived[m]
Arrived  == 1..Len(arrived)

Entry(what, m) == [what |-> what, about |-> m]
Other          == Entry("other", 0)
Entries        == [what : {"mark", "quarantine", "other"}, about : 0..MaxMessages]
Marks(log)     == {m \in Messages : \E i \in DOMAIN log : log[i] = Entry("mark", m)}

KeptAll(log) == log                     \* mutant of Kept: never trimmed

Kept(log) == IF Len(log) > EventCap
             THEN SubSeq(log, Len(log) - EventCap + 1, Len(log)) ELSE log

\* Every entry goes to the list in memory first; the store may miss it.
Log(entry, persisted) ==
  /\ events' = Kept(Append(events, entry))
  /\ storedEvents' = IF persisted THEN Kept(Append(storedEvents, entry)) ELSE storedEvents
  /\ forgotten' = forgotten \cup (Marks(events) \ Marks(events'))

Bounded == {"faults", "crashes", "other", "changes"}
Spend(what, bound) == /\ used[what] < bound
                      /\ used' = [used EXCEPT ![what] = @ + 1]
Fault == Spend("faults", MaxFaults)

Init ==
  /\ arrived = <<>> /\ runtime = 0 /\ base = 0 /\ oldest = 1
  /\ cursor = NoCursor /\ savedCursor = NoCursor
  /\ phase = "idle" /\ polled = {} /\ after = NoCursor
  /\ todo = {} /\ item = 0 /\ stage = "pick"
  /\ events = <<>> /\ storedEvents = <<>>
  /\ rows = [m \in Messages |-> 0] /\ storedRows = rows /\ acts = rows
  /\ ready = FALSE /\ forgotten = {} /\ cut = {}
  /\ used = [what \in Bounded |-> 0]

----------------------------------------------------------------------------
(* reticulumd and the rest of the hub.                                     *)

Arrive(k) ==
  /\ Len(arrived) < MaxMessages
  /\ arrived' = Append(arrived, k)
  /\ oldest' = IF Len(arrived') - oldest + 1 > StreamCap THEN oldest + 1 ELSE oldest
  /\ UNCHANGED <<runtime, base, cursor, savedCursor, worker, hub, ready, cut, used>>

\* The history survives a restart of reticulumd, the event stream does not.
DaemonRestart ==
  /\ runtime < MaxRestarts
  /\ runtime' = runtime + 1
  /\ base' = Len(arrived) /\ oldest' = Len(arrived) + 1
  /\ UNCHANGED <<arrived, cursor, savedCursor, worker, hub, ready, cut, used>>

OtherEvent ==
  /\ Spend("other", MaxOther)
  /\ Log(Other, TRUE)
  /\ UNCHANGED <<daemon, cursor, savedCursor, worker, rows, storedRows, acts, ready, cut>>

\* A topic is created or deleted, an identity banned or no longer banned.
ChangeReady ==
  /\ Spend("changes", MaxChanges)
  /\ ready' = ~ready
  /\ UNCHANGED <<daemon, cursor, savedCursor, worker, hub, cut>>

\* The message, if any, that has been listed, relayed or carried out so far
\* but not marked.
Begun == {m \in {item} : stage = "mark" \/ (stage = "act" /\ Kind(m) = "chat")}

\* The hub restarts from its store; what the worker was doing is lost.
Crash ==
  /\ Spend("crashes", MaxCrashes)
  /\ cursor' = savedCursor
  /\ phase' = "idle" /\ polled' = {} /\ after' = NoCursor
  /\ todo' = {} /\ item' = 0 /\ stage' = "pick"
  /\ events' = storedEvents
  /\ forgotten' = forgotten \cup (Marks(events) \ Marks(storedEvents))
  /\ rows' = storedRows
  /\ cut' = cut \cup Begun
  /\ UNCHANGED <<daemon, savedCursor, storedEvents, storedRows, acts, ready>>

----------------------------------------------------------------------------
(* A tick of the worker.                                                   *)

\* The tick returns an error: the cursor stays where it was.
Abandon == /\ phase' = "idle" /\ polled' = {} /\ after' = NoCursor
           /\ todo' = {} /\ item' = 0 /\ stage' = "pick"

From == IF cursor = NoCursor THEN base ELSE cursor.at

StreamGap == From + 1 < oldest

Batch    == LET first == IF From < oldest THEN oldest ELSE From + 1
            IN  first .. (IF Len(arrived) < first + PollMax
                          THEN Len(arrived) ELSE first + PollMax - 1)
BatchEnd == IF Batch = {} THEN From ELSE CHOOSE m \in Batch : m + 1 \notin Batch

Poll ==
  /\ phase = "idle"
  /\ cursor = NoCursor \/ cursor.run = runtime
  /\ polled' = Batch
  /\ after' = [run |-> runtime, at |-> BatchEnd]
  /\ phase' = IF StreamGap THEN "recover" ELSE "decode"
  /\ todo' = IF StreamGap THEN Arrived ELSE {}
  /\ UNCHANGED <<daemon, cursor, savedCursor, item, stage, hub, ready, cut, used>>

\* Mutant of ResetCursor: the error is not one the worker knows.
ResetUnknown ==
  /\ phase = "idle" /\ cursor # NoCursor /\ cursor.run # runtime
  /\ UNCHANGED vars

\* A cursor of another runtime is refused with an error the worker knows.
ResetCursor ==
  /\ phase = "idle"
  /\ cursor # NoCursor /\ cursor.run # runtime
  /\ cursor' = NoCursor
  /\ \/ savedCursor' = NoCursor /\ UNCHANGED used
     \/ Fault /\ UNCHANGED savedCursor
  /\ UNCHANGED <<daemon, worker, hub, ready, cut>>

\* What the history yields was handled; the batch is next.
Recovered ==
  /\ phase = "recover" /\ stage = "pick" /\ todo = {}
  /\ phase' = "decode"
  /\ \/ Log(Other, TRUE) /\ UNCHANGED used
     \/ Log(Other, FALSE) /\ Fault
  /\ UNCHANGED <<daemon, cursor, savedCursor, polled, after, todo, item, stage,
                 rows, storedRows, acts, ready, cut>>

\* All events are decoded, in their order, before the first is handled.
Undecoded == {m \in polled : Kind(m) \in {"malformed", "garbled"}}
NextUndecoded(m) == /\ phase = "decode" /\ m \in Undecoded
                    /\ \A n \in Undecoded : m <= n

\* An event is quarantined once, as far as the system events go back.
Quarantined(m) == \E i \in DOMAIN events : events[i] = Entry("quarantine", m)

Quarantine(m) ==
  /\ NextUndecoded(m) /\ Kind(m) = "malformed"
  /\ polled' = polled \ {m}
  /\ \/ Quarantined(m) /\ UNCHANGED <<events, storedEvents, forgotten, used>>
     \/ ~Quarantined(m) /\ Log(Entry("quarantine", m), TRUE) /\ UNCHANGED used
     \/ ~Quarantined(m) /\ Log(Entry("quarantine", m), FALSE) /\ Fault
  /\ UNCHANGED <<daemon, cursor, savedCursor, phase, after, todo, item, stage,
                 rows, storedRows, acts, ready, cut>>

DecodeErrs(m) ==
  /\ NextUndecoded(m) /\ Kind(m) = "garbled"
  /\ Abandon
  /\ UNCHANGED <<daemon, cursor, savedCursor, hub, ready, cut, used>>

Decoded ==
  /\ phase = "decode" /\ Undecoded = {}
  /\ phase' = "handle"
  /\ todo' = polled
  /\ UNCHANGED <<daemon, cursor, savedCursor, polled, after, item, stage, hub,
                 ready, cut, used>>

----------------------------------------------------------------------------
(* Handling one envelope.                                                  *)

\* Mutant of AlreadyProcessed: only events are looked up, not the history.
PolledAlready(m) == phase = "handle" /\ m \in Marks(events)

AlreadyProcessed(m) == m \in Marks(events)

\* A batch is handled in its order, the history in the order of its pages.
Turn(m) == /\ phase \in {"recover", "handle"} /\ stage = "pick" /\ m \in todo
           /\ phase = "handle" => \A n \in todo : m <= n

\* A retained message that does not decode ends the tick.
Undecodable(m) ==
  /\ Turn(m) /\ phase = "recover" /\ Kind(m) \in {"malformed", "garbled"}
  /\ Abandon
  /\ UNCHANGED <<daemon, cursor, savedCursor, hub, ready, cut, used>>

Skip(m) ==
  /\ Turn(m) /\ AlreadyProcessed(m)
  /\ todo' = todo \ {m}
  /\ UNCHANGED <<daemon, cursor, savedCursor, phase, polled, after, item, stage,
                 hub, ready, cut, used>>

Begin(m) ==
  /\ Turn(m) /\ ~AlreadyProcessed(m)
  /\ Kind(m) \notin {"malformed", "garbled"}
  /\ item' = m
  /\ stage' = IF Kind(m) = "chat" THEN "record" ELSE "act"
  /\ UNCHANGED <<daemon, cursor, savedCursor, phase, polled, after, todo, hub,
                 ready, cut, used>>

\* The client row written on the way to each step cannot be stored.
TouchFails ==
  /\ stage \in {"record", "act"} /\ Fault
  /\ Abandon
  /\ cut' = cut \cup Begun
  /\ UNCHANGED <<daemon, cursor, savedCursor, hub, ready>>

\* Mutant of Record: a row that cannot be stored is no error.
RecordLenient ==
  /\ stage = "record"
  /\ rows' = [rows EXCEPT ![item] = OneMore(@)]
  /\ \/ storedRows' = [storedRows EXCEPT ![item] = OneMore(@)] /\ UNCHANGED used
     \/ Fault /\ UNCHANGED storedRows
  /\ stage' = "act"
  /\ UNCHANGED <<daemon, cursor, savedCursor, phase, polled, after, todo, item,
                 events, storedEvents, acts, ready, forgotten, cut>>

Record ==
  /\ stage = "record"
  /\ rows' = [rows EXCEPT ![item] = OneMore(@)]
  /\ \/ /\ storedRows' = [storedRows EXCEPT ![item] = OneMore(@)]
        /\ stage' = "act"
        /\ UNCHANGED <<phase, polled, after, todo, item, cut, used>>
     \/ /\ Fault /\ Abandon
        /\ cut' = cut \cup {item}
        /\ UNCHANGED storedRows
  /\ UNCHANGED <<daemon, cursor, savedCursor, events, storedEvents, acts, ready, forgotten>>

\* The relay or the reply is queued, the command carried out.
Acted == acts' = [acts EXCEPT ![item] = OneMore(@)]

\* The command at hand lacks what it demands.
Refusing == Kind(item) = "demanding" /\ ~ready

NextEnvelope == /\ todo' = todo \ {item} /\ item' = 0 /\ stage' = "pick"
                /\ UNCHANGED <<phase, polled, after>>

\* The relay of a chat and a join leave a system event of their own.
Act ==
  /\ stage = "act" /\ Kind(item) # "refused" /\ ~Refusing
  /\ Acted
  /\ Log(Other, TRUE)
  /\ stage' = "mark"
  /\ UNCHANGED <<daemon, cursor, savedCursor, phase, polled, after, todo, item,
                 rows, storedRows, ready, cut, used>>

ActQuietly ==
  /\ stage = "act" /\ Kind(item) \in {"command", "demanding"} /\ ~Refusing
  /\ Acted
  /\ stage' = "mark"
  /\ UNCHANGED <<daemon, cursor, savedCursor, phase, polled, after, todo, item,
                 events, storedEvents, rows, storedRows, ready, forgotten, cut, used>>

\* Nobody is there to relay a chat to.
NobodyToRelayTo ==
  /\ stage = "act" /\ Kind(item) = "chat"
  /\ stage' = "mark"
  /\ UNCHANGED <<daemon, cursor, savedCursor, phase, polled, after, todo, item,
                 hub, ready, cut, used>>

Refuse ==
  /\ stage = "act" /\ Kind(item) = "refused"
  /\ Acted
  /\ NextEnvelope
  /\ UNCHANGED <<daemon, cursor, savedCursor, events, storedEvents, rows,
                 storedRows, ready, forgotten, cut, used>>

\* Mutant of CommandErrs: the error is dropped and the next envelope handled.
CommandErrsQuietly ==
  /\ stage = "act" /\ Refusing
  /\ NextEnvelope
  /\ UNCHANGED <<daemon, cursor, savedCursor, hub, ready, cut, used>>

\* The handler of the command returns an error, and with it the tick.
CommandErrs ==
  /\ stage = "act" /\ Refusing
  /\ Abandon
  /\ UNCHANGED <<daemon, cursor, savedCursor, hub, ready, cut, used>>

\* What was done is in memory but its row, or its event, is not stored.
ActFails ==
  /\ stage = "act" /\ ~Refusing /\ Fault
  /\ Acted
  /\ \/ UNCHANGED <<events, storedEvents, forgotten>>
     \/ Kind(item) # "refused" /\ Log(Other, FALSE)
  /\ Abandon
  /\ cut' = cut \cup {item}
  /\ UNCHANGED <<daemon, cursor, savedCursor, rows, storedRows, ready>>

Mark ==
  /\ stage = "mark"
  /\ Log(Entry("mark", item), TRUE)
  /\ NextEnvelope
  /\ UNCHANGED <<daemon, cursor, savedCursor, rows, storedRows, acts, ready, cut, used>>

MarkFails ==
  /\ stage = "mark" /\ Fault
  /\ Log(Entry("mark", item), FALSE)
  /\ Abandon
  /\ UNCHANGED <<daemon, cursor, savedCursor, rows, storedRows, acts, ready, cut>>

----------------------------------------------------------------------------
\* Mutant of Save: the cursor moves before the envelopes are handled.
SaveEarly ==
  /\ phase = "handle" /\ stage = "pick"
  /\ savedCursor' = after /\ cursor' = after
  /\ UNCHANGED <<daemon, worker, hub, ready, cut, used>>

Save ==
  /\ phase = "handle" /\ todo = {}
  /\ \/ savedCursor' = after /\ cursor' = after /\ UNCHANGED used
     \/ Fault /\ UNCHANGED <<savedCursor, cursor>>
  /\ Abandon
  /\ UNCHANGED <<daemon, hub, ready, cut>>

Decode == Decoded \/ \E m \in polled : Quarantine(m) \/ DecodeErrs(m)

Handle == \/ \E m \in todo : Undecodable(m) \/ Skip(m) \/ Begin(m)
          \/ Record \/ Act \/ ActQuietly \/ NobodyToRelayTo \/ Refuse
          \/ CommandErrs \/ Mark

Tick == Poll \/ ResetCursor \/ Recovered \/ Decode \/ Handle \/ Save

Next == \/ \E k \in Kinds : Arrive(k)
        \/ DaemonRestart \/ OtherEvent \/ ChangeReady \/ Crash
        \/ Tick \/ TouchFails \/ ActFails \/ MarkFails

Spec == Init /\ [][Next]_vars

\* The worker's loop never ends while the hub runs: a tick that has begun goes
\* on, and the next one begins after the poll interval.
LiveSpec == Spec /\ WF_vars(Tick)

----------------------------------------------------------------------------
(* Properties.                                                             *)

DaemonTypeOK ==
  /\ arrived \in Seq(Kinds) /\ Len(arrived) <= MaxMessages
  /\ runtime \in 0..MaxRestarts
  /\ base \in 0..Len(arrived) /\ oldest \in base + 1 .. Len(arrived) + 1

WorkerTypeOK ==
  /\ cursor \in Cursors /\ savedCursor \in Cursors /\ after \in Cursors
  /\ phase \in {"idle", "recover", "decode", "handle"}
  /\ polled \subseteq Arrived /\ todo \subseteq Arrived
  /\ item \in {0} \cup todo /\ (item # 0 => phase \in {"recover", "handle"})
  /\ stage \in {"pick", "record", "act", "mark"} /\ (stage = "pick" <=> item = 0)

HubTypeOK ==
  /\ events \in Seq(Entries) /\ Len(events) <= EventCap
  /\ storedEvents \in Seq(Entries) /\ Len(storedEvents) <= EventCap
  /\ rows \in [Messages -> 0..Many] /\ storedRows \in [Messages -> 0..Many]
  /\ acts \in [Messages -> 0..Many]
  /\ forgotten \subseteq Messages

\* Values stay in their ranges: the worker has only messages that arrived at
\* hand, and of the system events no more than EventCap are kept.
TypeOK ==
  /\ DaemonTypeOK /\ WorkerTypeOK /\ HubTypeOK
  /\ ready \in BOOLEAN /\ cut \subseteq Messages
  /\ used \in [Bounded -> Nat]

\* What a message must have led to before it may count as taken.
Taken(m) == \/ Kind(m) = "chat" /\ storedRows[m] > 0
            \/ Kind(m) \in {"command", "demanding", "refused"} /\ acts[m] > 0
            \/ Kind(m) = "malformed"

\* The cursor, in memory or stored, never passes a message that was not
\* listed, carried out, answered or quarantined: not after a gap in the
\* stream, a failed write, a crash in the middle of a batch, or a restart of
\* reticulumd under the worker's feet.
NothingPassedOver ==
  \A c \in {cursor, savedCursor} :
    c.run = runtime => \A m \in base + 1 .. c.at : Taken(m)

\* A message is listed, relayed and carried out at most once, unless the hub
\* lost its mark or was cut off while it handled the message.  (A refused text
\* has no mark.)
HandledOnce ==
  \A m \in Arrived \ (forgotten \cup cut) :
    Kind(m) # "refused" => acts[m] <= 1 /\ rows[m] <= 1

\* What was relayed to others is in the stored list: after a restart the hub
\* can show every message its subscribers may have received.
RelayedIsStored ==
  \A m \in Arrived : Kind(m) = "chat" /\ acts[m] > 0 => storedRows[m] > 0

\* In a batch a message is relayed or carried out for the first time only when
\* everything before it in the stream was taken: no command overtakes another.
HandledInOrder ==
  [][\A m \in Arrived :
       phase = "handle" /\ acts[m] = 0 /\ acts'[m] > 0 /\ after.run = runtime
         => \A n \in base + 1 .. m - 1 : Taken(n)]_vars

\* The worker is past the message, or reticulumd restarted before it was.
Passed(m) == m <= base \/ (cursor.run = runtime /\ m <= cursor.at)

\* Provided that what demanding commands need is there in the end, the cursor
\* passes every message, whatever failed on the way; with NothingPassedOver,
\* every message not lost with a runtime of reticulumd is taken.
EverythingTaken ==
  <>[]ready => \A m \in Messages : m \in Arrived ~> Passed(m)

\* "malformed_event_is_quarantined_and_cursor_advances_to_later_messages"
\* (tests/field_commands.rs): malformed messages do not hold up the cursor.
CursorAdvances ==
  \A m \in Messages : m \in Arrived ~> Passed(m)
=============================================================================
