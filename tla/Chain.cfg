SPECIFICATION ChainSpec
CONSTANTS
  l1 = l1
  l2 = l2
  g1 = g1
  t1 = t1
  ra = ra
  rh = rh
  wa = wa
  u1 = u1
  u2 = u2
  ti = ti
  pa = pa
  pb = pb
  fo = fo
  b1 = b1
  b2 = b2
  ux = ux
  Logins = {l1, l2}
  Groups = {g1}
  Tabs = {t1}
  GroupOf <- TabGroups
  PageSize = 1
  MaxPolls = 4
  MaxWrites = 2
  MaxKeys = 2
  Realms = {ra, rh}
  Users = {u1, u2}
  RealmOf <- TypedSites
  Titles = {ti}
  NoTitle = NoTitle
  Passwords = {pa, pb}
  Bookmarks = {fo, b1, b2}
  ParentOf <- Folders
  UrlOf <- Urls
  Top = Top
  NoUrl = NoUrl
  None = None
  MaxQueued = 2
  MaxLogins = 2
  MaxForeign = 1
  Times <- Instants
SYMMETRY Symmetric
INVARIANTS
  ChainTypeOK
  PullIsExact
  TabsAreShown
  DroppedOnlyIfChanged
  
  NothingHidden
  FreshIsAccepted
  StaleIsRefused
PROPERTIES
  EditKeepsKey
CHECK_DEADLOCK FALSE
