SPECIFICATION Spec
CONSTANTS
    CheckOnStartup = TRUE
    CheckInterval = TRUE
    Preemptive = TRUE
    Threads = {c1, c2}
    Resident = {}
    Versions <- MCVersions
    Current <- MCCurrent
    None = None
    MaxActions <- MCMaxActions
INVARIANTS
    ExclusiveUpdate
