\* The outbound queue and its worker before a server that comes and goes.
\* After a shutdown, with the time of both probes passed, nothing is left to do.
SPECIFICATION FairSpec
CONSTANTS
  m1 = m1
  m2 = m2
  m3 = m3
  c1 = c1
  c2 = c2
  Messages = {m1, m2, m3}
  Callers = {c1, c2}
  Capacity = 2
  Pauses = 2
INVARIANTS
  TypeOK
  AtMostOneProbe
  BacklogIsReported
PROPERTIES
  Promise
CHECK_DEADLOCK FALSE
