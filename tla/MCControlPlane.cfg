SPECIFICATION Spec
CONSTANTS
  r1 = r1
  r2 = r2
  w1 = w1
  w2 = w2
  None = None
  Runs <- MCRuns
  Workers <- MCWorkers
  Kinds <- MCKinds
  MaxLog = 4
  MaxSubmits = 1
  MaxFaults = 2
INVARIANTS
  AssignmentConsistent
  StateFollowsLog
  OneVerdict
  AcceptedRunsSurvive
  RecordedVerdictSurvives
PROPERTY LedgerSpec
SYMMETRY MCSymmetry
CHECK_DEADLOCK FALSE
