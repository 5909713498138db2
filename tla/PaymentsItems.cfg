SPECIFICATION FairSpec
CONSTANTS
  None = None
  Subs = {s1, s2}
  Items = {"i1"}
  ManifestItems = {"i1"}
  Symbols = {"AR", "ETH"}
  Supported = {"AR", "ETH"}
  Fees = {1}
  Addrs = {"u1"}
  Pays <- OnePay
  ExpiredRange = 0
  MaxOrders = 2
  MaxTime = 2
  MaxDays = 1
  MaxFaults = 0
  MaxCrashes = 0
INVARIANTS
  BinaryHasMeta
  NoOrphanItem
PROPERTIES
  ReceiptsSettle
  OverdueOrdersClosed
CHECK_DEADLOCK FALSE
