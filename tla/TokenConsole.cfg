SPECIFICATION TokenSpec
CONSTANTS
    TokenIds = {t1}
    NodeIds = {n1, n2}
    Registrars = {g1, g2}
    Absent = Absent
    Nothing = Nothing
    SaveMayFail = TRUE
SYMMETRY Symmetric
INVARIANTS TokenTypeOK OneNodePerToken NodesAreRecorded DeletedStayGone
