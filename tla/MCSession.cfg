CONSTANTS
  MaxTestId = 2
  WaitControl = 2
  PollTimeout = 5
  InitialTimeout = 50
  Data = 4
  Configs <- MCConfigs
SPECIFICATION FairSpec
INVARIANTS
  TypeOK
  NoFailure
  OneThreadPerTest
  DataConserved
  NoEarlyClose
PROPERTIES
  ReceiversEnd
CHECK_DEADLOCK FALSE
