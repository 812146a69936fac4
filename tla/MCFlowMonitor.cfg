CONSTANTS
  local = local
  fabric = fabric
  Flow = {local, fabric}
  Hops <- MCHops
  Doubled = {fabric}
  MaxPerHopDelay = 1
  CheckInterval = 2
  CallDelays = {0, 1}
  MaxPackets <- MCMaxPackets
  MaxCalls = 1
  MaxTime = 3
SPECIFICATION Spec
INVARIANTS FlowBalance SinglePathExact DoubledBounds DelaysWithin NotForgotten
CHECK_DEADLOCK FALSE
