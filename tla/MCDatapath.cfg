CONSTANTS
  Tests = {t1}
  t1 = t1
  Configs <- AllConfigs
  MaxId = 6
  SndBuf = 2
  MaxCopies = 1
SPECIFICATION Spec
INVARIANTS
  TypeOK
  IdsExact
  LossExact
  LedgerBalances
  NoPhantomLoss
  SeenWasHanded
PROPERTIES
  FeedsReceiver
CHECK_DEADLOCK FALSE
