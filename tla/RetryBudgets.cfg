SPECIFICATION FairSpec
CONSTANTS
  MaxReclaims = 1
  MaxDeaths = 0
  MaxTimeouts = 2
  MaxLimits = 1
  MaxManual = 1
  MaxFaults = 1
  MaxCrashes = 1
INVARIANT
  LaunchesAccounted
PROPERTIES
  NothingUndone
  DeadIsSettled
CHECK_DEADLOCK FALSE
