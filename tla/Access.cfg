SPECIFICATION Spec
CONSTANTS
  c1 = c1
  c2 = c2
  c3 = c3
  h1 = h1
  h2 = h2
  t1 = t1
  Unreadable = Unreadable
  NoAnswer = NoAnswer
  DefaultData <- NoData
  Calls <- ThreeCalls
  Threads <- ThreeCalls
  Jobs <- ThreeCalls
  Handles <- TwoHandles
  Enrolled <- OneHandle
  Things <- OneThing
  Asks <- AllAsks
  Policy <- UsePolicy
  Answers <- DenyOrTwice
  MaxRestarts = 1
SYMMETRY Symmetric
CONSTRAINT Explored
INVARIANTS
  TypeOK
  UsesAccounted
  RevocationSticks
  AccessIsLogged
  OnlySanctioned
CHECK_DEADLOCK FALSE
