SPECIFICATION FairSpec
CONSTANTS
  Deadline = 3
  MaxTime = 6
  Hints = 2
  None = None
INVARIANTS
  ScoreIsProved
  BreachMeansUnsolved
  FixIsCredited
  LateSuccessIsFinal
PROPERTIES
  BreachIsShown
  RunEnds
CHECK_DEADLOCK FALSE
