SPECIFICATION Spec
CONSTANTS
  j1 = j1
  j2 = j2
  c1 = c1
  c2 = c2
  NoJob = NoJob
  Jobs <- TwoJobs
  Conns <- TwoConns
INVARIANT PresentMeansConnected
CHECK_DEADLOCK FALSE
