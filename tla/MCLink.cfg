SPECIFICATION FairSpec
CONSTANTS
  a = a
  b = b
  NoPkt = NoPkt
  Dev <- MCDev
  Sizes <- MCSizes
  TxTime <- MCTxTime
  UINT32 = 64
  MaxSize <- MCBytes3
  Gap = 0
  Delay = 2
  Lossy = TRUE
  MaxSends = 3
  Horizon = 2
INVARIANTS
  NothingStranded
  NoOvertaking
  LinkInv
  NoAssertionFails
  Conservation
PROPERTIES
  ReadingExact
  AcceptedArrives
CHECK_DEADLOCK FALSE
