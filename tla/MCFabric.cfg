CONSTANTS
  SpineCount = 2
  LeafCount = 2
  ServerCount = 2
  ActionSpace = 2
  DefaultTtl = 64
  MaxPackets = 2
SPECIFICATION Spec
INVARIANTS NoAssertionFails HopsBounded PathDropsAttributed NothingVanishes
