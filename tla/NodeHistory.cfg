SPECIFICATION Spec
CONSTANTS
    NodeIds = {n1, n2}
    RuleIds = {r1, r2}
    Ports = {80}
    Protocols = {"tcp", "udp", "both"}
    RawPolicies <- MCRawPolicies
    Times = {0}
    ReportStates = {"applied"}
    Absent = Absent
    Never = Never
    MaxVersion = 3
    MaxTime = 1
    SaveMayFail = FALSE
SYMMETRY Symmetric
INVARIANT NodeHistoryRemoved
