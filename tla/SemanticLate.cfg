SPECIFICATION Spec
CONSTANTS
  r1 = r1
  p1 = p1
  o1 = o1
  o2 = o2
  Runners = {r1}
  Publishers = {p1}
  Patient = {}
  Owners = {o1, o2}
  Identity <- MCIdentity
  Oids <- MCOids
  TTL = 2
  MaxGen = 2
  MaxHead = 2
  MaxRevision = 2
  LatePush = TRUE
  PromptSave = TRUE
  NoOid = NoOid
  NoOwner = NoOwner
  NoClaim = NoClaim
  NoPush = NoPush
  Base = Base
  Foreign = Foreign
INVARIANTS
  HolderUnique
  PublishedIsReviewed
PROPERTIES
  FencedSpec
CHECK_DEADLOCK FALSE
VIEW Unnamed
