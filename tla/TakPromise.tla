------------------------------ MODULE TakPromise ------------------------------
(***************************************************************************)
(* What the outbound side of the TAK connector promises: a message that    *)
(* was accepted reaches the TAK server, the first time in the order of     *)
(* acceptance, perhaps more than once; while the service is open, none     *)
(* waits for ever.                                                         *)
(***************************************************************************)
EXTENDS Naturals, Sequences

CONSTANT Messages

VARIABLES
  owed,      \* messages accepted and not known to have arrived, oldest first
  arrived,   \* messages that have reached the server, in order of arrival
  open       \* whether the service delivers

vars == <<owed, arrived, open>>

Has(s, m) == \E i \in DOMAIN s : s[i] = m

Init == owed = << >> /\ arrived = << >> /\ open \in BOOLEAN

Accept(m) ==
  /\ ~Has(owed, m) /\ ~Has(arrived, m)
  /\ owed' = Append(owed, m)
  /\ UNCHANGED <<arrived, open>>

\* The oldest message arrives, again perhaps.
Arrive ==
  /\ owed # << >>
  /\ arrived' = IF Has(arrived, Head(owed)) THEN arrived
                ELSE Append(arrived, Head(owed))

\* The connector does not learn of the arrival, and tries again.
Unnoticed == Arrive /\ UNCHANGED <<owed, open>>

Confirm == Arrive /\ owed' = Tail(owed) /\ UNCHANGED open

OpenOrClose == open' = ~open /\ UNCHANGED <<owed, arrived>>

Next == (\E m \in Messages : Accept(m)) \/ Unnoticed \/ Confirm \/ OpenOrClose

\* Nothing unasked for arrives, nothing is forgotten, the order is kept.
Safety == Init /\ [][Next]_vars

Spec == Safety /\ WF_vars(open /\ Confirm)

===============================================================================
