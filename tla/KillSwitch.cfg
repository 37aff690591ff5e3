\* An operator who purges and a second client whose requests cross the purge.
SPECIFICATION FairSpec
CONSTANTS
  c1 = c1
  c2 = c2
  Clients = {c1, c2}
  Scenarios <- TwoClients
  Nil = Nil
  TTL = 1
  Lockout = 2
  FailureLimit = 2
  Crashes = TRUE
INVARIANTS
  TypeOK
  ArmedWhileAuthorized
  
PROPERTIES
  OnlyOldRequestsBreakTheLock
  NothingPersistedUnderTheLock
  PurgeEnds
