CONSTANTS
  SpineCount = 2
  LeafCount = 2
  ServerCount = 1
  ActionSpace = 2
  DefaultTtl = 64
  MaxPackets = 1
SPECIFICATION Spec
INVARIANTS ForwardedOnce
