SPECIFICATION FairSpec
CONSTANTS
    CheckOnStartup = TRUE
    CheckInterval = TRUE
    Preemptive = FALSE
    Threads = {c1, c2, c3}
    Resident = {c3}
    Versions <- MCVersions
    Current <- MCCurrent
    None = None
    MaxActions <- MCMaxActions
INVARIANTS
    TypeOK
    ExclusiveUpdate
    QuietRestart
    AnnouncedIsInstalled
    WaitingIsOpen
    PendingIsWatched
PROPERTIES
    InstalledOnce
    UpdateTakesEffect
    KeepsPromise
    FollowsCycle
