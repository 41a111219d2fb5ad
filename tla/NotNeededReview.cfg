SPECIFICATION FairSpec
CONSTANTS
  NoRecord = NoRecord
  MaxGen = 2
  MaxStops = 1
  MaxEdits = 1
  MaxLoss = 1
INVARIANTS
  HeldUntilPassed
  ReviewedOnce
PROPERTY
  ReviewEnds
CHECK_DEADLOCK FALSE
