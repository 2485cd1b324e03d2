SPECIFICATION Spec
CONSTANTS
  Providers <- MCIndexed
  MaxEvents = 5
  MaxCalls = 2
INVARIANT CallsAreSerialized
CHECK_DEADLOCK FALSE
