CONSTANTS
  t1 = t1
  Tests = {t1}
  Configs <- PackedConfigs
  MaxId = 3
  SndBuf = 2
  MaxCopies = 0
SPECIFICATION Spec
INVARIANTS
  NoPhantomLoss
CHECK_DEADLOCK FALSE
