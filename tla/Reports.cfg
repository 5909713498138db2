SPECIFICATION FairSpecAll
CONSTANTS
  None = None
  Topics = {"item"}
  Records = 2
  Limit <- MCLimit
  Stuck <- MCStuck
  Bundled = {2}
  NearMidnight = FALSE
  MaxDays = 2
  MaxFaults = 1
  MaxCrashes = 1
INVARIANTS
  FlaggedIsPublished
  DuplicatesBounded
  OneRowPerDay
  NoDaySkipped
  CountedOnItsDay
PROPERTIES
  AllPublished
  EveryDayReported
CHECK_DEADLOCK FALSE
