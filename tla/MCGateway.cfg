SPECIFICATION Spec
CONSTANTS
  MinBlock = 6
  MaxBlock = 9
  Keep = 1
  Statuses = {200, 401, 429, 500, 503, 529}
  MaxSends = 2
  Scenarios <- MCScenarios
INVARIANTS
  TypeOK
  SafeBody
  FaithfulText
PROPERTIES
  CompressAnswers
  SendSettles
CHECK_DEADLOCK FALSE
