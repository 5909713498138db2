SPECIFICATION FairSpec
CONSTANTS
  Ids = {i1}
  Slots = {s1, s2}
  Peers = 2
  MaxFaults = 1
  MaxCrashes = 1
  None = None
INVARIANTS
  PendingHasOwner
  AcceptedTaskKept
PROPERTIES
  PendingIsProcessed
  ClosedTaskLeaves
