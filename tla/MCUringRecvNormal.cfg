CONSTANTS
  MaxTestId = 2
  Data = 1
  Configs <- MCConfigs
SPECIFICATION FairSpec
INVARIANTS
  TypeOK
  SingleOwner
  NoExhaustion
  NoOverflow
  CountersAgree
  HandledInOrder
  NoLeakBeforeLast
PROPERTIES
  Terminates
CHECK_DEADLOCK FALSE
