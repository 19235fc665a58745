SPECIFICATION PageSpec
CONSTANTS
  Tasks = {t1, t2, t3}
  NoTask = NoTask
SYMMETRY Symmetry
INVARIANTS
  NoLostBitWakeup
  LockedMeansOwned
CHECK_DEADLOCK FALSE
