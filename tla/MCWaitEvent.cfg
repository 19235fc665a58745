SPECIFICATION FairSpec
CONSTANTS
  t1 = t1
  t2 = t2
  t3 = t3
  Tasks = {t1, t2, t3}
  Wakers = {t3}
  Uses <- MCUses
  NoTask = NoTask
  SignalKinds = {"fatal"}
INVARIANTS
  NoStackScribble
  NoLostWakeup
PROPERTY StableConditionReturns
CHECK_DEADLOCK FALSE
