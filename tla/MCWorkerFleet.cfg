SPECIFICATION FairFleetSpec
CONSTANTS
  r1 = r1
  r2 = r2
  w1 = w1
  w2 = w2
  None = None
  Runs <- MCRuns
  Workers <- MCWorkers
  Kinds <- MCKinds
  MaxLog = 8
  MaxSubmits = 1
  MaxFaults = 2
  MaxEnds = 1
INVARIANTS
  ResultAttribution
  PassedMeansExecutorSucceeded
  ExecutedAtMostOnce
  EvidenceBeforeVerdict
  LogReadsTrue
PROPERTIES
  AssignedRunIsDecided
  StaleLoopEnds
CHECK_DEADLOCK FALSE
