SPECIFICATION FairSpec
CONSTANTS
  Tasks = {t1, t2}
  NoTask = NoTask
  HaveCmpxchg = FALSE
  SignalKinds = {"plain", "fatal"}
PROPERTIES
  ImplementsBlockingLock
  MutexProgress
CHECK_DEADLOCK FALSE
