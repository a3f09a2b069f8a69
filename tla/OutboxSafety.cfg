SPECIFICATION Spec
CONSTANTS
  c1 = c1
  c2 = c2
  c3 = c3
  r1 = r1
  o1 = o1
  k1 = k1
  k2 = k2
  None = None
  Unreadable = Unreadable
  DefaultData <- NoEntries
  Threads <- AllThreads
  Commands <- ThreeCommands
  Replays <- OneReplay
  Others <- NoThread
  Op <- MixedOps
  Keys <- TwoKeys
  InitialKeys <- NoThread
  MaxFaults = 1
  MaxRestarts = 1
INVARIANTS
  QueuedUntilAnswered
  DoneIsCleared
PROPERTY ReplayKeepsOrder
CONSTRAINT Serial
CHECK_DEADLOCK FALSE
