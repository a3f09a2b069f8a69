SPECIFICATION BrowserSpec
CONSTANTS
  j1 = j1
  j2 = j2
  t1 = t1
  t2 = t2
  f1 = f1
  f2 = f2
  Jobs = {j1, j2}
  Tabs = {t1, t2}
  Urls <- TwoSites
  Grants <- OneGrant
  None = None
  NoId = NoId
  MaxPorts = 2
  MaxMoves = 1
  Ids = {1, 2}
  Setup = Setup
  Agent = Agent
  Desk = Desk
  Threads = {Setup, Agent, Desk}
  DefaultData <- NoData
  Unreadable = Unreadable
  MaxStarts = 3
  Sites = {"a.org", "b.org"}
  Fetches = {f1, f2}
  Idle = Idle
INVARIANTS
  BrowserTypeOK
  FillIsTrue
  HolderCanProve
  MarkedIsReevaluated
PROPERTIES
  HostComesBack
CHECK_DEADLOCK FALSE
