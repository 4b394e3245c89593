SPECIFICATION FairSpec
CONSTANTS
    Owners = {o1, o2}
CHECK_DEADLOCK FALSE
PROPERTIES
    ReleaseStopsTimer
