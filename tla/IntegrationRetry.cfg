SPECIFICATION FairSpec
CONSTANTS
  MaxRetries = 1
  MaxIds = 3
  MaxLate = 1
  MaxCrash = 1
  HoldReadFails = FALSE
INVARIANTS
  RunsAlone
  BudgetKept
PROPERTIES
  HeldRests
  StoppedEscalates
