\* A partial acceptance against the promise that the rejected are retried.
SPECIFICATION Spec
CONSTANTS
  d1 = d1
  d2 = d2
  Dsts = {d1, d2}
  Msgs = {m1}
  Recipients <- ToBoth
  Multi = {m1}
  Rem = {}
  Unreceipted = {}
  Methods = {"direct", "auto", "propagated"}
  Parent = Parent
  NoTick = NoTick
  NoMsg = NoMsg
  Ticks = {t1}
  Callbacks = {}
  FailureReasons = {"send_timeout", "rate_limited", "other"}
  SendErrors = {"transport", "other"}
  RdOutcomes = {"sent", "delivered", "failed", "unannounced"}
  RetryMax = 2
  MultiMax = 3
  FallbackMax = 4
  LimitMax = 4
  ExtMax = 2
  AttemptCap = 5
  SendCap = 0
  CallBudget = 0
  CrashBudget = 0
INVARIANTS
  ScheduledMeansQueued
