SPECIFICATION FairSpec
CONSTANTS
    CheckOnStartup = FALSE
    CheckInterval = TRUE
    Preemptive = TRUE
    Threads = {c1, c2, c3}
    Resident = {}
    Versions <- MCVersions
    Current <- MCCurrent
    None = None
    MaxActions <- MCMaxActions
INVARIANTS
    CounterExact
PROPERTIES
    FailureIsFinal
    WatchIsKept
    BlockedByWorkEnds
