SPECIFICATION RotationSpec
CONSTANTS
  a = a
  b = b
  c = c
  m1 = m1
  m2 = m2
  Relays = {a, b, c}
  Conversations = {x}
  Models = {m1}
  None = None
  Snapshots <- AllShapes
  Requests = {q1, q2}
  MaxRequests = 4
  MaxSaves = 1
PROPERTY TurnsAreKept
PROPERTY FailuresLeadOn
CHECK_DEADLOCK FALSE
