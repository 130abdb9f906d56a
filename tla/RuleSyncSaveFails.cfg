SPECIFICATION SyncSpec
CONSTANTS
    NodeIds = {n1}
    RuleIds = {r1}
    Ports = {80}
    Protocols = {"tcp"}
    RawPolicies <- MCRawPolicies
    Times = {}
    ReportStates = {"applied", "error"}
    Absent = Absent
    Never = Never
    MaxVersion = 2
    MaxTime = 0
    SaveMayFail = TRUE
    Self = n1
    Flags <- Managed
    AgentMayFail = FALSE
    MayReboot = FALSE
PROPERTY SavedRulesAreNews
