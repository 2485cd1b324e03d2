CONSTANTS
  Conns = {c1}
  Readers = {r1, r2}
  Worker = w
  MaxEdits = 1
  MaxFaults = 2
  MaxQueue = 2
SPECIFICATION FairSpec
INVARIANTS
  TypeOK
  LockHasJob
PROPERTIES
  CacheConverges
CHECK_DEADLOCK FALSE
