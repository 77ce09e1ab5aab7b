SPECIFICATION StreamSpec
CONSTANTS
  Indexes = {0, 1}
  Null = Null
  MaxChunks = 4
  MaxText = 6
  Departures = {}
INVARIANTS
  NothingIsLost
  SameMessage
PROPERTY ImplementsResponses
CHECK_DEADLOCK FALSE
