SPECIFICATION MCSpec
CONSTANTS
    b1 = b1
    b2 = b2
    b3 = b3
    d3 = d3
    MaxVouched = 3
    Torn = Torn
    First = b1
    Versions <- MCVersions
    Contents <- MCContents
    Length <- MCLength
    Built <- MCBuilt
    Updating <- MCUpdating
INVARIANTS
    RunsWhatWasVouched
PROPERTIES
    SteadyNeverFails
    EveryUpdateIsNewer
    SteadyConverges
