SPECIFICATION FairSpec
CONSTANTS
  None = None
  L1 = L1
  Clients = {c1}
  Syncers = {g1}
  Domains = {"d"}
  Sites = {"site", "tx"}
  Manifests = {"site"}
  Manifest = "site"
  Pages <- MCPages
  BatchLimit = 2
  Folder <- MCFolder
  BatchSize = 2
  Limit = 2
  OldBundle <- MCOldBundle
  MaxBundles = 2
  MaxTrouble = 1
  MaxRetries = 1
INVARIANTS
  ManifestLast
  OrdersPaidOnce
PROPERTIES
  SiteComesUp
  StaleSiteLeaves
CHECK_DEADLOCK FALSE
