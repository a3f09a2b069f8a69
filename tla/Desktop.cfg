SPECIFICATION DesktopSpec
CONSTANTS
  cA = cA
  cB = cB
  s1 = s1
  s2 = s2
  i1 = i1
  main = main
  me = me
  d1 = d1
  d2 = d2
  d3 = d3
  p1 = p1
  p2 = p2
  v1 = v1
  v2 = v2
  h1 = h1
  h2 = h2
  None = None
  Unreadable = Unreadable
  DefaultData <- NoVault
  Threads <- SyncsAndMain
  Chains <- TwoChains
  Syncs <- TwoSyncs
  Ids <- OneId
  MaxVersion = 1
  MaxLocks = 1
  Current = me
  Devices <- FourDevices
  DeviceName <- SharedNames
  FirstSeen <- Dates
  Purges <- TwoPurges
  MaxUpdates = 1
  MaxMounts = 1
  FirstView = v1
  Agents = Agents
  Views <- TwoViews
  Handlers <- TwoHandlers
  MaxSeq = 4
SYMMETRY Symmetric
CONSTRAINT Serial
INVARIANTS
  DesktopTypeOK
  LockedIsEmpty
  OfOneChain
  InStep
  ShownIsCached
  PurgedIsUnlisted
  RowsAreOfTheView
PROPERTIES
  OnlyStaleGo
  CancelStops
CHECK_DEADLOCK FALSE
