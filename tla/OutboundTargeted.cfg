\* A message to one recipient, one tick at a time, every error and report, a crash.
SPECIFICATION FairSpec
CONSTANTS
  d1 = d1
  d2 = d2
  Dsts = {d1}
  Msgs = {m1}
  Recipients <- ToOne
  Multi = {}
  Rem = {}
  Unreceipted = {}
  Methods = {"direct", "auto", "propagated"}
  Parent = Parent
  NoTick = NoTick
  NoMsg = NoMsg
  Ticks = {t1}
  Callbacks = {}
  FailureReasons = {"send_timeout", "rate_limited", "other"}
  SendErrors = {"rate_limited", "transport", "other"}
  RdOutcomes = {"sent", "delivered", "failed", "unannounced"}
  RetryMax = 2
  MultiMax = 3
  FallbackMax = 4
  LimitMax = 3
  ExtMax = 1
  AttemptCap = 4
  SendCap = 6
  CallBudget = 0
  CrashBudget = 1
INVARIANTS
  TypeOK
  RetryBudget
  SettledIsBacked
PROPERTIES
  
  EventuallySettled
