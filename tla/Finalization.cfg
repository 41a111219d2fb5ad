SPECIFICATION FinalFairSpec
CONSTANTS
  MaxTip = 2
  MaxRun = 5
  Limit = 2
  MaxGen = 4
  MaxPushes = 2
  MaxEdits = 2
  MaxFaults = 1
INVARIANTS
  NothingLost
  EscalatesRightly
PROPERTY
  ChildSettles
CHECK_DEADLOCK FALSE
