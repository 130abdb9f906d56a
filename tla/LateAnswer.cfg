SPECIFICATION Spec
CONSTANTS
    MaxGuards = 1
    NoTable = NoTable
    NoTimer = NoTimer
    CommandsMayFail = FALSE
    MayCrash = FALSE
PROPERTY RollbackOnlyUnproven
