SPECIFICATION FairSpec
CONSTANTS
  j1 = j1
  j2 = j2
  c1 = c1
  c2 = c2
  None = None
  Jobs <- MCJobs
  Launches <- MCLaunches
  Concurrency = 1
  MaxFaults = 2
INVARIANTS
  CompletedIsComplete
  OneController
PROPERTIES
  KeepsPromise
  SessionCompletes
CHECK_DEADLOCK FALSE
