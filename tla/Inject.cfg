SPECIFICATION FairSpec
CONSTANTS
  j1 = j1
  j2 = j2
  c1 = c1
  c2 = c2
  NoJob = NoJob
  Jobs <- TwoJobs
  Conns <- TwoConns
INVARIANTS
  TypeOK
  PresenceNeverUndercounts
  NoLostWakeup
  NoSenderLeft
PROPERTIES
  PromiseKept
  CallReturns
  HeadIsTaken
CHECK_DEADLOCK FALSE
