\* An official, a mixed and a pure profile, with Codex starting at any time, two files
\* that cannot be read or written, probes that fail and a Manager that is killed.
SPECIFICATION Spec
CONSTANTS
  Official = {o}
  Mixed = {m}
  PureApi = {p}
  None = None
  Entries = {e}
  MaxLogins = 3
  MaxFaults = 2
  MaxKills = 1
CONSTRAINT Promising
INVARIANTS
  KeysStayWithTheirProvider
  UsersDataIsKept
PROPERTIES
  ReportIsTrue
