SPECIFICATION RotationSpec
CONSTANTS
  a = a
  b = b
  c = c
  m1 = m1
  m2 = m2
  Relays = {a, b, c}
  Conversations = {x}
  Models = {m1}
  None = None
  Snapshots <- AllShapes
  Requests = {q1, q2}
  MaxRequests = 4
  MaxSaves = 0
PROPERTY FailureMovesOn
CHECK_DEADLOCK FALSE
