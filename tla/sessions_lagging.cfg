\* One process moves a session whose rollout lags behind its row, and is killed.
SPECIFICATION Spec
CONSTANTS
  d1 = d1
  d2 = d2
  Procs = {p1}
  Dbs = {d1}
  DbOrder <- OneDb
  Cwds = {c1, c2, c3}
  None = None
  MaxRequests = 1
  MaxMoves = 1
  MaxDeletes = 0
  MaxUndos = 0
  MaxFaults = 0
  MaxEvents = 1
INVARIANT RecoveryHasAPlan
CHECK_DEADLOCK FALSE
