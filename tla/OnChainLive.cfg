SPECIFICATION FairSpec
CONSTANTS
  None = None
  Items = {"p", "q"}
  Size <- MCSize
  Modes <- MCModes
  MaxPerOnChainSize = 1
  Streams = TRUE
  Failing = {}
  SlowChain = TRUE
  MaxOrders = 2
  MaxPerItem = 1
  MaxSent = 5
  MaxDrops = 1
  MaxFaults = 0
  MaxCrashes = 1
PROPERTY
  OrderStaysSuccess
CHECK_DEADLOCK FALSE
