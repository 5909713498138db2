SPECIFICATION Spec
CONSTANTS
  None = None
  Subs = {s1}
  Items = {"i1"}
  ManifestItems = {}
  Symbols = {"AR"}
  Supported = {"AR"}
  Fees = {1}
  Addrs = {"u1"}
  Pays <- OnePay
  ExpiredRange = 0
  MaxOrders = 1
  MaxTime = 1
  MaxDays = 0
  MaxFaults = 0
  MaxCrashes = 0
INVARIANT PaidItemStored
CHECK_DEADLOCK FALSE
