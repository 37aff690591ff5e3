\* Two callers on both lanes, a shutdown, timeouts, full lanes and the dropped handle;
\* or registrations, updates and sends while reticulumd fails at any point.
SPECIFICATION FairSpec
CONSTANTS
  c1 = c1
  c2 = c2
  Callers = {c1, c2}
  Nobody = Nobody
  Traffics <- TwoCallers
  Identities = {i1, i2}
  NoIdentity = NoIdentity
  NoSession = NoSession
  SendCapacity = 1
  ControlCapacity = 1
  Burst = 2
  RequestTimeout = 0
  QueueGrace = 1
  ReceiveGrace = 1
  Modulus = 2
INVARIANTS
  TypeOK
  CountersAreExact
  ServedUnderRegisteredIdentity
PROPERTIES
  StartedIsAwaited
  EveryCallReturns
  DroppedActorStops
