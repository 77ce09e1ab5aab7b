SPECIFICATION Spec
CONSTANTS
  Groups = {g1}
  UserValues = {}
  Unset = Unset
  Corrupt = Corrupt
  ApiLogin = ApiLogin
  None = None
  Homes = {h1, h2}
  Overlap = FALSE
  Exposed <- NoKind
  MaxFaults = 0
  MaxCrashes = 0
  MaxEdits = 0
  MaxDamage = 0
INVARIANT RepairInManagedHome
CHECK_DEADLOCK FALSE
