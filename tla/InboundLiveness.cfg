\* Every message is taken in the end and in order, whatever failed on the way.
SPECIFICATION LiveSpec
CONSTANTS
  Kinds <- WaitingKinds
  MaxMessages = 2
  StreamCap = 1
  PollMax = 1
  EventCap = 1
  MaxFaults = 1
  MaxCrashes = 0
  MaxRestarts = 1
  MaxOther = 1
  MaxChanges = 1
PROPERTIES
  
  EverythingTaken
CHECK_DEADLOCK FALSE
