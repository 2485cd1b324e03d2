CONSTANTS
  Requests = {v1, v2, v3}
  MaxAttempts = 2
  MaxIssues = 2
  OtherFlows = TRUE
SYMMETRY RequestSymmetry
SPECIFICATION Spec
INVARIANTS
  TypeOK
  DeadCodeNeverAccepted
  CodeAlwaysExpires
  NoSpuriousSuspension
  SerialCountIsExact
