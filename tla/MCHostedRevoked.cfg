SPECIFICATION Spec
CONSTANTS
  s1 = s1
  s2 = s2
  k1 = k1
  k2 = k2
  None = None
  Sessions <- MCSessions
  Conns = {k1}
  Outcomes = {"succeeded"}
  MaxReads = 0
  MaxFaults = 0
INVARIANT RevokedKeyStaysRevoked
CHECK_DEADLOCK FALSE
