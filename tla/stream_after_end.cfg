\* The connection breaks after the provider has ended its answer.
SPECIFICATION StreamSpec
CONSTANTS
  Indexes = {0, 1}
  Null = Null
  MaxChunks = 1
  MaxText = 2
  Departures = {"breaks"}
PROPERTY EndIsFinal
CHECK_DEADLOCK FALSE
