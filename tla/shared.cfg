SPECIFICATION SharedFairSpec
CONSTANTS
    Owners = {o1, o2}
    Setters = {o1, o2, "startup", "timer"}
    Listeners = {ui}
    Preemptive = FALSE
    MaxChanges = 4
CHECK_DEADLOCK FALSE
INVARIANTS
    TypeOK
    CaughtUp
    NoCheckOnceDropped
PROPERTIES
    HearsLatest
    FeedsLatest
    ReleasedIsDropped
