SPECIFICATION LiveSpec
CONSTANTS
  a = a
  b = b
  c = c
  Procs = {p1}
  Consumers = {m1, m2}
  Skills = {a, b, c}
  None = None
  Edited = Edited
  Link = Link
  SkillsOf <- TwoVersions
  Legacy = {a}
  LinkResolves = TRUE
  StopsInRestore = FALSE
  MaxTx = 3
  MaxCrash = 1
  MaxFail = 1
  MaxEdits = 1
INVARIANT
  DiskTrue
PROPERTIES
  AtomicSpec
  UninstallKeepsEdits
  EveryOperationEnds
