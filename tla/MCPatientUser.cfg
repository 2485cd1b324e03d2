CONSTANTS
  Requests = {v1, v2, v3, v4, v5, v6, v7}
  Registrations = {g1, g2, g3, g4}
  Resends = {r1, r2, r3, r4, r5, r6, r7, r8, r9}
  MaxAttempts = 2
  MaxIssues = 6
  MaxFaults = 3
SPECIFICATION PatientSpec
INVARIANTS
  PatientTypeOK
  HonestNeverSuspended
PROPERTIES
  SignupSucceeds
CHECK_DEADLOCK FALSE
