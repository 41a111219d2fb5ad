SPECIFICATION FairSpec
CONSTANTS
  Final <- AllCodes
  MaxEvents = 1
  MaxEdits = 1
  MaxFaults = 1
  MaxCrashes = 1
INVARIANTS
  RepairSound
  OneCycle
PROPERTY
  RepairEnds
