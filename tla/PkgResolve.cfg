SPECIFICATION Spec
CONSTANTS
  n1 = n1
  n2 = n2
  root = root
  libA = libA
  libB = libB
  inner = inner
  url = url
  r1 = r1
  r2 = r2
  b1 = b1
  b2 = b2
  None = None
  NameOrder <- TwoNames
  Paths <- Dirs
  Root = root
  Urls <- OneUrl
  Revs <- TwoRevs
  Branches <- TwoBranches
  Package <- Packages
  Worlds <- AllWorlds
  InitRev = r1
  MaxSyncs = 2
  MaxOutside = 1
INVARIANTS
  SyncOutcomeIsRight
  LockHonoursAll
  LockIsJudgedRightly
CHECK_DEADLOCK FALSE
