CONSTANTS
  MaxTextures = 3
  MaxToggles = 5
  MaxFaults = 1
SPECIFICATION FairSpec
INVARIANTS NeverOnReleased OneChain LoopIsCarried
PROPERTIES ShownIsDrawn TextureIsReleased
\* A halted view stops for good.
CHECK_DEADLOCK FALSE
