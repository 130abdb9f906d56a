SPECIFICATION Spec
CONSTANTS
    MaxGuards = 3
    NoTable = NoTable
    NoTimer = NoTimer
    CommandsMayFail = TRUE
    MayCrash = TRUE
INVARIANTS RollbackIsSafe ConfirmedNotRolledBack
