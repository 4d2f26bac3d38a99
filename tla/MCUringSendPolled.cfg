CONSTANTS
  MaxId = 4
  Configs <- Polled
SPECIFICATION Spec
INVARIANTS
  BuffersStable
CHECK_DEADLOCK FALSE
