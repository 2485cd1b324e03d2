CONSTANTS
  Requests = {r1, r2, r3}
  Limit = 1
  WindowSeconds = 2
  TicksPerSecond = 2
  MaxTime = 6
SYMMETRY RequestSymmetry
SPECIFICATION Spec
INVARIANTS
  TypeOK
  OverAdmissionBounded
  CoveredIsRemembered
  AdmissionsBounded
  RetryAfterSuffices
CHECK_DEADLOCK FALSE
