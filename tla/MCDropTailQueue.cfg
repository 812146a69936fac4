SPECIFICATION QueueSpec
CONSTANTS
  UINT32 = 16
  ItemSizes <- MCItemSizes
  InitialMax <- MCInitialMax
  MaxSizes <- MCMaxSizes
  MaxOps = 8
INVARIANTS
  ContentsCounted
  PacketsBalance
CHECK_DEADLOCK FALSE
