\* A request and a message at a time, in each part of the registry.
SPECIFICATION Spec
CONSTANTS
  m1 = m1
  m2 = m2
  m3 = m3
  t1 = t1
  t2 = t2
  u1 = u1
  u2 = u2
  i1 = i1
  a1 = a1
  a2 = a2
  x1 = x1
  p1 = p1
  c1 = c1
  c2 = c2
  e1 = e1
  e2 = e2
  k1 = k1
  s1 = s1
  Missions = {m1, m2, m3, default}
  Teams = {t1, t2}
  Members = {u1, u2}
  Identities = {i1}
  Clients = {k1}
  Assets = {a1, a2}
  Skills = {s1}
  Assignments = {x1}
  Places = {p1}
  Entries = {e1}
  Snapshots = {e1, e2}
  Callsigns = {c1, c2}
  None = None
  Keep = Keep
  Default = default
  Canonical = {t1}
  HttpWorkers = {http}
  RadioWorkers = {radio}
  Traffics <- AllTraffics
  MaxCommands = 3
INVARIANTS
  TypeOK
  MissionsFormATree
  RelationsAgree
  OneActiveSnapshot
PROPERTIES
  RemovedByItsCommandOnly
CHECK_DEADLOCK FALSE
