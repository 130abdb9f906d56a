SPECIFICATION UserSpec
CONSTANTS
    UserIds = {u1, u2}
    Team = {u1}
    Requests = {q1}
    Absent = Absent
    Nothing = Nothing
    SaveMayFail = FALSE
    Me = u1
    MyRole = "super_admin"
    MaxChanges = 2

PROPERTY DisableOnlyDisables
