SPECIFICATION Spec
CONSTANTS
  Configs <- MCConfigs
  UsizeMax = 15
  MaxThreads = 2
  Rounds = 3
  MaxWork = 3
  MaxClock = 4
INVARIANTS
  TypeOK
  ThreadsStart
  ReportComplete
  IntervalsAddUp
PROPERTIES
  RoundsEnd
CHECK_DEADLOCK FALSE
