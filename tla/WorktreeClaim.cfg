SPECIFICATION FairSpec
CONSTANTS
  d1 = d1
  i1 = i1
  i2 = i2
  NoClaim = NoClaim
  Claims = {d1, i1, i2}
  DispatchClaims = {d1}
  MaxOutside = 1
INVARIANTS
  SavedOwnsWorktree
  StoriesAgree
PROPERTIES
  NeverTakenFromHolder
  WorkNeverDestroyed
  InterruptedResumes
