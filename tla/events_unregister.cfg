SPECIFICATION Spec
CONSTANTS
    NumVectors = 2
    Events = {"e1", "e2"}
    MaxSessions = 2
    MaxCalls = 3
INVARIANT UnregisteredSilent
CHECK_DEADLOCK FALSE
