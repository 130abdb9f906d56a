SPECIFICATION FairSpec
CONSTANTS
    MaxGuards = 3
    NoTable = NoTable
    NoTimer = NoTimer
    CommandsMayFail = TRUE
    MayCrash = FALSE
INVARIANTS PendingIsArmed UnprovenIsWatched
PROPERTY UnprovenGuardEnds
