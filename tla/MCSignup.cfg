CONSTANTS
  Requests = {v1}
  Registrations = {g1}
  Resends = {r1, r2}
  MaxAttempts = 2
  MaxIssues = 2
SPECIFICATION Spec
INVARIANTS
  TypeOK
  SessionImpliesVerified
  LateResendRefused
PROPERTIES
  UsesOtp
CHECK_DEADLOCK FALSE
