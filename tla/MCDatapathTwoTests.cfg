CONSTANTS
  t1 = t1
  t2 = t2
  Tests = {t1, t2}
  Configs <- LosslessConfigs
  MaxId = 3
  SndBuf = 2
  MaxCopies = 0
SPECIFICATION Spec
INVARIANTS
  NoPhantomLoss
CHECK_DEADLOCK FALSE
