\* Three messages, a failing write and a crash at any point, gaps in the stream.
SPECIFICATION Spec
CONSTANTS
  Kinds <- FaultKinds
  MaxMessages = 3
  StreamCap = 2
  PollMax = 2
  EventCap = 3
  MaxFaults = 1
  MaxCrashes = 1
  MaxRestarts = 0
  MaxOther = 0
  MaxChanges = 0
INVARIANTS
  TypeOK
  NothingPassedOver
  HandledOnce
  RelayedIsStored
CHECK_DEADLOCK FALSE
