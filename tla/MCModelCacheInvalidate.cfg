CONSTANTS
  Conns = {c1}
  Readers = {r1, r2}
  Worker = w
  MaxEdits = 1
  MaxFaults = 0
  MaxQueue = 2
SPECIFICATION Spec
INVARIANTS
  InvalidateForcesRefetch
CHECK_DEADLOCK FALSE
