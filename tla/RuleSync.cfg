SPECIFICATION FairSyncSpec
CONSTANTS
    NodeIds = {n1}
    RuleIds = {r1}
    Ports = {80}
    Protocols = {"tcp"}
    RawPolicies <- MCRawPolicies
    Times = {0}
    ReportStates = {"applied", "error"}
    Absent = Absent
    Never = Never
    MaxVersion = 2
    MaxTime = 1
    SaveMayFail = FALSE
    Self = n1
    Flags <- Managed
    AgentMayFail = TRUE
    MayReboot = FALSE
INVARIANT SameVersionSameRules
PROPERTIES PanelIsRuleStore RulesArrive
