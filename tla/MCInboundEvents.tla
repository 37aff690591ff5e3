-------------------------- MODULE MCInboundEvents --------------------------
(* Instances of InboundEvents for TLC: the kinds of messages of each run.  *)
EXTENDS InboundEvents

FaultKinds     == {"chat", "command", "malformed", "garbled"}
WaitingKinds   == {"chat", "demanding", "refused"}
MalformedAmong == {"chat", "malformed"}
=============================================================================
