SPECIFICATION LaunchFairSpec
CONSTANTS
  i1 = i1
  i2 = i2
  Issues = {i1, i2}
  MaxLaunches = 2
  MaxActive = 2
  CanLookup = TRUE
  MaxAttempts = 2
  MaxTime = 2
  MaxFaults = 2
  MaxActs = 3
INVARIANT
  ExecutionsAccounted
PROPERTIES
  HandleKept
  UnknownEnds
