\* A topic message while the reticulumd adapter may call back, once, at any moment.
SPECIFICATION FairSpec
CONSTANTS
  d1 = d1
  d2 = d2
  Dsts = {d1}
  Msgs = {m1}
  Recipients <- ToOne
  Multi = {m1}
  Rem = {}
  Unreceipted = {}
  Methods = {"direct", "auto", "propagated"}
  Parent = Parent
  NoTick = NoTick
  NoMsg = NoMsg
  Ticks = {t1}
  Callbacks = {"receipt", "failure", "retry", "propagation", "drop", "attempt"}
  FailureReasons = {"send_timeout", "other"}
  SendErrors = {"transport"}
  RdOutcomes = {"delivered"}
  RetryMax = 2
  MultiMax = 2
  FallbackMax = 2
  LimitMax = 2
  ExtMax = 0
  AttemptCap = 2
  SendCap = 0
  CallBudget = 1
  CrashBudget = 0
INVARIANTS
  InProgressNotScheduled
PROPERTIES
  InProgressResolves
