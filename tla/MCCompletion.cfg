SPECIFICATION CompletionSpec
CONSTANTS
  Tasks = {t1, t2, t3}
  UINT_MAX = 7
  MaxCompletes = 2
  SignalKinds = {"plain"}
SYMMETRY Symmetry
INVARIANTS
  DoneIsBalance
  NoDanglingEntry
  EachEventWakes
CHECK_DEADLOCK FALSE
