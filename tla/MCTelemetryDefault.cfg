CONSTANTS
  UINT32 = 16
  Options <- DefaultOptions
  Loaded <- MCLoaded
  ServerCount = 1
  QueueMax = 1
  TxTime = 2
  Second = 2
  StepTime = 1
  MaxPackets = 3
  SimTime = 5
SPECIFICATION Spec
INVARIANT NoUndefinedAccess
CHECK_DEADLOCK FALSE
