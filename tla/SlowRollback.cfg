SPECIFICATION Spec
CONSTANTS
    MaxGuards = 2
    NoTable = NoTable
    NoTimer = NoTimer
    CommandsMayFail = FALSE
    MayCrash = FALSE
PROPERTY ConfirmedGuardStays
