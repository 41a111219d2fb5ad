SPECIFICATION Spec
CONSTANTS
  p1 = p1
  p2 = p2
  g1 = g1
  g2 = g2
  c1 = c1
  c2 = c2
  h1 = h1
  h2 = h2
  Procs = {p1, p2}
  Claims = {g1, g2}
  CloudClaims = {g2}
  Completions = {c1, c2}
  Heads = {h1, h2}
  Asked = {"done", "not-needed"}
  Decisions = {"allowed"}
  MaxLate = 0
  MaxEdits = 1
  NoClaim = NoClaim
  NoId = NoId
  NoHead = NoHead
  NoRecord = NoRecord
  NoCall = NoCall
  Free = Free
SYMMETRY Symmetric
INVARIANTS
  PendingOwnsIssue
  OutcomeOnce
  OneOutcomePerGeneration
  DonePublishedValidated
