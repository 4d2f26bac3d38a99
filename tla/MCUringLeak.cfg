CONSTANTS
  MaxTestId = 2
  Data = 1
  Configs <- TwoTests
SPECIFICATION Spec
INVARIANTS
  NoLeak
CHECK_DEADLOCK FALSE
