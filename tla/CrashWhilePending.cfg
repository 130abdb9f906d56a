SPECIFICATION FairSpec
CONSTANTS
    MaxGuards = 1
    NoTable = NoTable
    NoTimer = NoTimer
    CommandsMayFail = FALSE
    MayCrash = TRUE
PROPERTY UnprovenGuardEnds
