CONSTANTS
  MaxTestId = 2
  Data = 2
  Configs <- MCConfigs
SPECIFICATION FairSpec
INVARIANTS
  TypeOK
  EachBufferOnce
  InflightCovers
  NeverOutOfBuffers
  HandledInOrder
  NotDeaf
PROPERTIES
  Terminates
CHECK_DEADLOCK FALSE
