CONSTANTS
  None = None
  MaxFrames = 7
  MaxFlows = 1
  MaxPending = 2
  MaxEdits = 2
  MaxFaults = 1
  Conditions = {"open-lan", "one-way-initiation", "restricted-port", "shared-disk", "free-for-all"}
  Absent = Absent
  PreflightSteps <- Confirming
  VerifySteps <- Verifying
  Lossable = {"r1"}
  MaxBoots = 2
  MaxActs = 2
  MaxContent = 3
  PackVersion <- Versions
  Pinned <- Versions
SPECIFICATION MCSpec
INVARIANTS
  PolicyHolds
  PublishedPairIsProved
  RewardIsEarned
  VerdictIsExplained
  MeasuredAsRecorded
  SessionRunsItsCohort
CHECK_DEADLOCK FALSE
