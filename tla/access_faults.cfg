SPECIFICATION SmallSpec
CONSTANTS
  Groups = {g1}
  UserValues = {u1}
  Unset = Unset
  Corrupt = Corrupt
  ApiLogin = ApiLogin
  None = None
  Homes = {h1}
  Overlap = FALSE
  Exposed <- AllButEnable
  MaxFaults = 1
  MaxCrashes = 1
  MaxEdits = 1
  MaxDamage = 1
INVARIANT BaselineIsUserOwned
INVARIANT RestoreUndoesTakeover
INVARIANT ClosedCycleIsClean
INVARIANT FailedOperationChangesNothing
PROPERTY UnmanagedKept
CHECK_DEADLOCK FALSE
