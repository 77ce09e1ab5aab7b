SPECIFICATION Spec
CONSTANTS
  Groups = {g1}
  UserValues = {}
  Unset = Unset
  Corrupt = Corrupt
  ApiLogin = ApiLogin
  None = None
  Homes = {h1}
  Overlap = FALSE
  Exposed <- OnlyEnable
  MaxFaults = 0
  MaxCrashes = 1
  MaxEdits = 0
  MaxDamage = 0
INVARIANT BaselineIsUserOwned
CHECK_DEADLOCK FALSE
