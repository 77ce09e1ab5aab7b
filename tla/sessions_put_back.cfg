\* Two processes move a session at the same time, and the commit of one fails.
SPECIFICATION AgreedSpec
CONSTANTS
  d1 = d1
  d2 = d2
  Procs = {p1, p2}
  Dbs = {d1}
  DbOrder <- OneDb
  Cwds = {c1, c2}
  None = None
  MaxRequests = 2
  MaxMoves = 2
  MaxDeletes = 0
  MaxUndos = 0
  MaxFaults = 1
  MaxEvents = 0
INVARIANT RowAndRolloutAgree
SYMMETRY Symmetry
CHECK_DEADLOCK FALSE
