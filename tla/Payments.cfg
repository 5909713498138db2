SPECIFICATION Spec
CONSTANTS
  None = None
  Subs = {s1}
  Items = {"i1", "i2"}
  ManifestItems = {}
  Symbols = {"AR"}
  Supported = {"AR"}
  Fees = {1, 2}
  Addrs = {"u1"}
  Pays <- ItemPays
  ExpiredRange = 0
  MaxOrders = 2
  MaxTime = 1
  MaxDays = 0
  MaxFaults = 1
  MaxCrashes = 1
INVARIANTS
  SettledOnce
  PaymentCovers
PROPERTY
  ImplementsSettlement
CHECK_DEADLOCK FALSE
