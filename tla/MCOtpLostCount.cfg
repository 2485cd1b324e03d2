CONSTANTS
  Requests = {v1, v2, v3}
  MaxAttempts = 3
  MaxIssues = 1
  OtherFlows = FALSE
SYMMETRY RequestSymmetry
SPECIFICATION Spec
INVARIANT MaxAttemptsSuspends
CHECK_DEADLOCK FALSE
