SPECIFICATION WheelSpec
CONSTANTS
  Timers = {t1, t2}
  Bits <- MCBits
  Offsets <- MCOffsets
  Slacks <- MCSlacks
  AutoSlack = 4
  MaxLag = 1
  MaxLate = 1
  MaxSleep = 16
  CallTimes <- MCCallTimes
  NULL = NULL
SYMMETRY Symmetry
INVARIANTS
  NoOversleep
  SlackInRange
PROPERTY FiresOnTime
