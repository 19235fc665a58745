SPECIFICATION Spec
CONSTANTS
  Tasks = {t1, t2, t3}
  NoTask = NoTask
  HaveCmpxchg = TRUE
  SignalKinds = {"plain"}
SYMMETRY Symmetry
INVARIANTS
  MutualExclusion
  OwnerIsHolder
  NoLostWakeup
