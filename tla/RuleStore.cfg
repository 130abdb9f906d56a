SPECIFICATION Spec
CONSTANTS
    NodeIds = {n1, n2}
    RuleIds = {r1, r2}
    Ports = {80}
    Protocols = {"tcp", "both"}
    RawPolicies <- MCRawPolicies
    Times = {0}
    ReportStates = {}
    Absent = Absent
    Never = Never
    MaxVersion = 3
    MaxTime = 1
    SaveMayFail = TRUE
SYMMETRY Symmetric
INVARIANTS TypeOK NoPortConflict RulesHaveNodes VersionNamesRules RenameKeepsPolicy
PROPERTY ServedChangeCountsUp
