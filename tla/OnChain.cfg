SPECIFICATION Spec
CONSTANTS
  None = None
  Items = {"s", "m"}
  Size <- MCSize
  Modes <- MCModes
  MaxPerOnChainSize = 4
  Streams = FALSE
  Failing = {"send", "status", "table"}
  SlowChain = FALSE
  MaxOrders = 2
  MaxPerItem = 2
  MaxSent = 2
  MaxDrops = 1
  MaxFaults = 1
  MaxCrashes = 1
INVARIANTS
  SuccessIsOnChain
  PendingIsTracked
  SortedInOrder
PROPERTY
  ImplementsDelivery
CHECK_DEADLOCK FALSE
