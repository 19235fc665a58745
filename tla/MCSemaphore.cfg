SPECIFICATION FairSpec
CONSTANTS
  Tasks = {t1, t2, t3}
  InitCount = 1
  MaxPermits = 2
INVARIANTS
  PermitsConserved
  NoDanglingWaiter
  NoBarging
  GrantIsAwake
PROPERTIES
  GrantNeverRefused
  DownSucceeds
CHECK_DEADLOCK FALSE
