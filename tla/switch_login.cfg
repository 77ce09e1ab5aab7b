\* From the official profile to a pure one and on to a mixed one: no failure, no kill,
\* nothing written while a switch is under way.
SPECIFICATION Spec
CONSTANTS
  Official = {o}
  Mixed = {m}
  PureApi = {p}
  None = None
  Entries = {}
  MaxLogins = 2
  MaxFaults = 0
  MaxKills = 0
INVARIANT LoginIsRetained
