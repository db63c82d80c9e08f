SPECIFICATION MCSpec
CONSTANTS
  s1 = s1
  s2 = s2
  k1 = k1
  k2 = k2
  None = None
  Sessions <- MCSessions
  Conns = {k1}
  Outcomes = {"succeeded"}
  MaxReads = 1
  MaxFaults = 1
INVARIANTS
  DestroyedHasNoKey
  KeysAreProvisioned
  CreateAdmitsOne
PROPERTIES
  OverStaysOver
  ExpiredLosesAccess
CHECK_DEADLOCK FALSE
