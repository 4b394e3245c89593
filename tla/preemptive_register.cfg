SPECIFICATION Spec
CONSTANTS
    CheckOnStartup = FALSE
    CheckInterval = TRUE
    Preemptive = TRUE
    Threads = {c1, c2}
    Resident = {}
    Versions <- MCVersions
    Current <- MCCurrent
    None = None
    MaxActions <- MCMaxActions
INVARIANTS
    QuietRestart
