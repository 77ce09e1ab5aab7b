\* Two processes, a session in one of two databases or in both: a listing, a move,
\* a delete and an undo in every interleaving, with a call that fails and a process
\* that is killed or a line that Codex appends.
SPECIFICATION OrderlySpec
CONSTANTS
  d1 = d1
  d2 = d2
  Procs = {p1, p2}
  Dbs = {d1, d2}
  DbOrder <- TwoDbs
  Cwds = {c1, c2}
  None = None
  MaxRequests = 2
  MaxMoves = 2
  MaxDeletes = 1
  MaxUndos = 1
  MaxFaults = 1
  MaxEvents = 1
INVARIANTS
  MovesSettle
  RolloutNeverLost
PROPERTIES
  RecoveryKeepsMoves
  ReportsAreTrue
  UndoRestores
SYMMETRY Symmetry
CHECK_DEADLOCK FALSE
