\* A pool of one that two runs share; the second backend serves the next pool
\* while a client of the ended one is out.
SPECIFICATION Spec
CONSTANTS
  Runs = {r1, r2}
  Backends = {b1, b2}
  PoolMax = 1
  None = none
INVARIANTS
  SessionsAreKept
  TimeoutsAreOwnOrStray
PROPERTIES
  EveryRunReturns
\* Every run may have ended.
CHECK_DEADLOCK FALSE
