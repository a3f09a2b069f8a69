SPECIFICATION FairSpec
CONSTANTS
  c1 = c1
  c2 = c2
  c3 = c3
  r1 = r1
  o1 = o1
  k1 = k1
  k2 = k2
  None = None
  Unreadable = Unreadable
  DefaultData <- NoEntries
  Threads <- AllThreads
  Commands <- TwoCommands
  Replays <- OneReplay
  Others <- NoThread
  Op <- Removals
  Keys <- TwoKeys
  InitialKeys <- TwoKeys
  MaxFaults = 0
  MaxRestarts = 1
PROPERTY OutboxDrains
CHECK_DEADLOCK FALSE
