SPECIFICATION FairSpec
CONSTANTS
  None = None
  Reqs = {r1, r2}
  Names = {n1, n2}
  Manifests = {n2}
  Failing = {"meta", "binary", "rename", "open"}
  MaxRequests = 3
  MaxFiles = 6
  MaxFaults = 1
  MaxCrashes = 1
INVARIANTS
  CountIsUses
  NoFileForgotten
PROPERTY
  FilesAreRemoved
CHECK_DEADLOCK FALSE
