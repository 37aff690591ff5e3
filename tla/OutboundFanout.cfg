\* A message to two recipients by one tick at a time: partial acceptance, fallback
\* to propagation, and a crash at any point.
SPECIFICATION Spec
CONSTANTS
  d1 = d1
  d2 = d2
  Dsts = {d1, d2}
  Msgs = {m1}
  Recipients <- ToBoth
  Multi = {m1}
  Rem = {}
  Unreceipted = {}
  Methods = {"direct", "auto", "propagated"}
  Parent = Parent
  NoTick = NoTick
  NoMsg = NoMsg
  Ticks = {t1}
  Callbacks = {}
  FailureReasons = {"send_timeout", "rate_limited", "other"}
  SendErrors = {"transport", "other"}
  RdOutcomes = {"sent", "failed", "unannounced"}
  RetryMax = 2
  MultiMax = 3
  FallbackMax = 4
  LimitMax = 3
  ExtMax = 1
  AttemptCap = 5
  SendCap = 0
  CallBudget = 0
  CrashBudget = 1
INVARIANTS
  NoDuplicateWithoutLoss

  
