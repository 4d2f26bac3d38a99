CONSTANTS
  MaxTestId = 2
  WaitControl = 2
  PollTimeout = 5
  InitialTimeout = 50
  Data = 4
  Configs <- BusyConfigs
SPECIFICATION FairSpec
PROPERTIES
  ReceiversAlwaysEnd
CHECK_DEADLOCK FALSE
