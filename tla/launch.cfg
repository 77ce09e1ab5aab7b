\* Two launcher processes, two runs of Codex, one request that starts.
SPECIFICATION Spec
CONSTANTS
    MaxLaunchers = 2
    MaxAttempts = 1
    MaxBinds = 1
    MaxLooks = 2
    MaxRuns = 2
    MaxRequests = 1
PROPERTIES ReportIsTrue OwnCodexOnly NobodyWaitsForEver
CHECK_DEADLOCK FALSE
