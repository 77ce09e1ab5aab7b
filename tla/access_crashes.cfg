SPECIFICATION Spec
CONSTANTS
  Groups = {g1}
  UserValues = {}
  Unset = Unset
  Corrupt = Corrupt
  ApiLogin = ApiLogin
  None = None
  Homes = {h1, h2}
  Overlap = FALSE
  Exposed <- AllKinds
  MaxFaults = 1
  MaxCrashes = 1
  MaxEdits = 0
  MaxDamage = 0
INVARIANT ActiveHasBaseline
PROPERTY BaselineFixedWhileOpen
CHECK_DEADLOCK FALSE
