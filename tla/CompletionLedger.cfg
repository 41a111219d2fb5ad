SPECIFICATION FairSpec
CONSTANTS
  p1 = p1
  p2 = p2
  g1 = g1
  g2 = g2
  c1 = c1
  c2 = c2
  h1 = h1
  h2 = h2
  Procs = {p1}
  Claims = {g1, g2}
  CloudClaims = {g1}
  Completions = {c1, c2}
  Heads = {h1}
  Asked = {"done", "blocked", "not-needed"}
  Decisions = {"allowed", "unknown", "exceeded"}
  MaxLate = 1
  MaxEdits = 1
  NoClaim = NoClaim
  NoId = NoId
  NoHead = NoHead
  NoRecord = NoRecord
  NoCall = NoCall
  Free = Free
INVARIANTS
  JournalBacked
  LabelsKept
PROPERTIES
  OutcomesSpec
  PendingProgresses
CHECK_DEADLOCK FALSE
