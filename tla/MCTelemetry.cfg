CONSTANTS
  UINT32 = 16
  Options <- MCOptions
  Loaded <- MCLoaded
  ServerCount = 1
  QueueMax = 1
  TxTime = 2
  Second = 2
  StepTime = 1
  MaxPackets = 3
  SimTime = 5
SPECIFICATION Spec
INVARIANTS ReadingsDefined SlotsShared DropsCumulative
CHECK_DEADLOCK FALSE
