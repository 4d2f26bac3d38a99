CONSTANTS
  MaxId = 4
  Configs <- MCConfigs
SPECIFICATION FairSpec
INVARIANTS
  TypeOK
  SendLedger
  StableIfGuarded
  IdsAccounted
  EachBufferOnce
PROPERTIES
  BuffersReturn
CHECK_DEADLOCK FALSE
