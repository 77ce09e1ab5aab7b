SPECIFICATION Spec
CONSTANTS
  Groups = {g1}
  UserValues = {u1}
  Unset = Unset
  Corrupt = Corrupt
  ApiLogin = ApiLogin
  None = None
  Homes = {h1}
  Overlap = TRUE
  Exposed <- NoKind
  MaxFaults = 0
  MaxCrashes = 0
  MaxEdits = 1
  MaxDamage = 0
PROPERTY RepairWhileManaged
CHECK_DEADLOCK FALSE
