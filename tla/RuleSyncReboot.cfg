SPECIFICATION SyncSpec
CONSTANTS
    NodeIds = {n1, n2}
    RuleIds = {r1}
    Ports = {80}
    Protocols = {"tcp"}
    RawPolicies <- MCRawPolicies
    Times = {}
    ReportStates = {"applied", "error"}
    Absent = Absent
    Never = Never
    MaxVersion = 2
    MaxTime = 0
    SaveMayFail = FALSE
    Self = n1
    Flags <- Strict
    AgentMayFail = TRUE
    MayReboot = TRUE
INVARIANTS AgentTypeOK SameVersionSameRules
