SPECIFICATION Spec
CONSTANTS
  c1 = c1
  c2 = c2
  c3 = c3
  h1 = h1
  h2 = h2
  t1 = t1
  Unreadable = Unreadable
  NoAnswer = NoAnswer
  DefaultData <- NoData
  Calls <- ThreeCalls
  Threads <- ThreeCalls
  Jobs <- ThreeCalls
  Handles <- TwoHandles
  Enrolled <- OneHandle
  Things <- OneThing
  Asks <- UseAsks
  Policy <- NoPolicy
  Answers <- Once
  MaxRestarts = 0
PROPERTY DiesImmediately
CHECK_DEADLOCK FALSE
