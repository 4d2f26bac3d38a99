CONSTANTS
  MaxTestId = 2
  WaitControl = 2
  PollTimeout = 5
  InitialTimeout = 50
  Data = 4
  Configs <- SharedConfigs
SPECIFICATION Spec
INVARIANTS
  LastIsExpected
CHECK_DEADLOCK FALSE
