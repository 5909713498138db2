SPECIFICATION Spec
CONSTANTS
  None = None
  Items = {"p", "q"}
  Size <- MCSize
  Modes <- MCModes
  MaxPerOnChainSize = 4
  Streams = TRUE
  Failing = {"load"}
  SlowChain = TRUE
  MaxOrders = 2
  MaxPerItem = 2
  MaxSent = 2
  MaxDrops = 1
  MaxFaults = 1
  MaxCrashes = 0
INVARIANT
  SuccessIsOnChain
CHECK_DEADLOCK FALSE
