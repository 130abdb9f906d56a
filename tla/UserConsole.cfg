SPECIFICATION MCSpec
CONSTANTS
    UserIds = {u1, u2}
    Team = {u1}
    Requests = {q1, q2}
    Absent = Absent
    Nothing = Nothing
    SaveMayFail = TRUE
    Me = u1
    MyRole = "super_admin"
    MaxChanges = 5
    MaxShownChanges = 2
    Beside = q1
INVARIANTS UserTypeOK SuperAdminKept
PROPERTY UsersReadTheirWrites
