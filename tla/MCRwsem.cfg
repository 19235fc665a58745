SPECIFICATION FairSpec
CONSTANTS
  Tasks = {t1, t2, t3}
  NoTask = NoTask
  ActiveMod = 8
INVARIANTS
  WriterExcludes
  CountAccounts
  NoStuckQueue
PROPERTIES
  ImplementsFairRWLock
  DownReturns
