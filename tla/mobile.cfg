\* Two commands at a time, two starts or stops, two phone sessions.
SPECIFICATION Spec
CONSTANTS
    Callers = {c1, c2}
    MaxGen = 2
    Sessions = {s1, s2}
    NoSession = NoSession
INVARIANTS HostsAreHeld LastCommandWins StatusIsOfTheRuntime
PROPERTY ToldHostsEnd
CHECK_DEADLOCK FALSE
