SPECIFICATION FairSpec
CONSTANTS
  r1 = r1
  p1 = p1
  o1 = o1
  o2 = o2
  Runners = {r1}
  Publishers = {p1}
  Patient = {p1}
  Owners = {o1, o2}
  Identity <- MCIdentity
  Oids <- MCOids
  TTL = 1
  MaxGen = 2
  MaxHead = 2
  MaxRevision = 2
  LatePush = FALSE
  PromptSave = TRUE
  NoOid = NoOid
  NoOwner = NoOwner
  NoClaim = NoClaim
  NoPush = NoPush
  Base = Base
  Foreign = Foreign
PROPERTIES
  PassedIsPublished
CHECK_DEADLOCK FALSE
