SPECIFICATION FairSpec
CONSTANTS
  CPUs = {c1, c2}
  Tasklets = {t1}
  Threads = {p1}
  NoTasklet = NoTasklet
  MAX_SOFTIRQ_RESTART = 2
INVARIANTS
  Serialized
  DisabledIsQuiet
  SchedIsToken
PROPERTIES
  ScheduledRuns
