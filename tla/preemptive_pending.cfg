SPECIFICATION FairSpec
CONSTANTS
    CheckOnStartup = TRUE
    CheckInterval = FALSE
    Preemptive = TRUE
    Threads = {c1, c2}
    Resident = {}
    Versions <- MCVersions
    Current <- MCCurrent
    None = None
    MaxActions <- MCMaxActions
PROPERTIES
    PendingRestartHappens
