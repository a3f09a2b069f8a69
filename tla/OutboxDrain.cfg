SPECIFICATION FairSpec
CONSTANTS
  c1 = c1
  c2 = c2
  c3 = c3
  r1 = r1
  o1 = o1
  k1 = k1
  k2 = k2
  None = None
  Unreadable = Unreadable
  DefaultData <- NoEntries
  Threads <- AllThreads
  Commands <- OneCommand
  Replays <- OneReplay
  Others <- OneOther
  Op <- Edits
  Keys <- TwoKeys
  InitialKeys <- OneKey
  MaxFaults = 1
  MaxRestarts = 1
INVARIANT TypeOK
PROPERTY OutboxDrains
CHECK_DEADLOCK FALSE
