SPECIFICATION Spec
CONSTANTS
  Tasks = {t1}
  Wakers = {w1, w2}
  Futexes = {f1, f2}
  Buckets = {1, 2}
  NULL = NULL
SYMMETRY Symmetry
INVARIANTS
  NoLostWakeup
  WakeupCounted
  QueueMatchesLock
