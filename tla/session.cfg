\* Between sessions, and when an application waits for an answer that never
\* comes, the system stops.
SPECIFICATION FairSpec
CONSTANTS
    Procs = {"p1", "p2"}
    Modes = {"no_simkill", "simkill", "sw_simkill", "regression"}
    NumTests = 2
    MaxOpens = 3
    MaxFaults = 1
    SignalAt = {"init", "up", "deinit"}
    Kills = TRUE
CONSTRAINT NoRace
INVARIANTS ExclusiveUnlessRaced EndsAsConfigured AnswersMatch CleanBetweenSessions
PROPERTY SessionProgress
CHECK_DEADLOCK FALSE
