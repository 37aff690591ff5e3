------------------------- MODULE MCOutboundDelivery -------------------------
(***************************************************************************)
(* Instances of OutboundDelivery for TLC.  The .cfg files choose which of  *)
(* the messages and recipients exist.                                      *)
(***************************************************************************)
EXTENDS OutboundDelivery

CONSTANTS d1, d2

\* every message has one recipient, or both
ToOne == [m \in Msgs |-> {d1}]
ToBoth == [m \in Msgs |-> {d1, d2}]
=============================================================================
