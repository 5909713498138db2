SPECIFICATION FairSpec
CONSTANTS
  None = None
  Subs = {s1}
  Items = {"i1"}
  ManifestItems = {}
  Symbols = {"AR", "ETH"}
  Supported = {"AR"}
  Fees = {1}
  Addrs = {"u1"}
  Pays <- KeyPays
  ExpiredRange = 0
  MaxOrders = 1
  MaxTime = 0
  MaxDays = 0
  MaxFaults = 1
  MaxCrashes = 1
INVARIANTS
  CreditedOnce
  BalanceWithinCredits
PROPERTIES
  PaymentRecorded
CHECK_DEADLOCK FALSE
