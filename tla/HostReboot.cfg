SPECIFICATION FairSyncSpec
CONSTANTS
    NodeIds = {n1}
    RuleIds = {r1}
    Ports = {80}
    Protocols = {"tcp"}
    RawPolicies <- MCRawPolicies
    Times = {}
    ReportStates = {"applied", "error"}
    Absent = Absent
    Never = Never
    MaxVersion = 1
    MaxTime = 0
    SaveMayFail = FALSE
    Self = n1
    Flags <- Managed
    AgentMayFail = FALSE
    MayReboot = TRUE
PROPERTY RulesArrive
