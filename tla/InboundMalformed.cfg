\* A malformed message in the history and a gap in the stream.
SPECIFICATION LiveSpec
CONSTANTS
  Kinds <- MalformedAmong
  MaxMessages = 2
  StreamCap = 1
  PollMax = 1
  EventCap = 2
  MaxFaults = 0
  MaxCrashes = 0
  MaxRestarts = 0
  MaxOther = 0
  MaxChanges = 0
PROPERTIES
  CursorAdvances
CHECK_DEADLOCK FALSE
