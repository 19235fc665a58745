SPECIFICATION Spec
CONSTANTS
  CPUs = {c1, c2}
  Threads = {p1}
  Timers = {t1, t2}
  NULL = NULL
SYMMETRY Symmetry
INVARIANTS
  SyncMeansQuiet
  SelfSerialized
  BaseOwnsTimer
