SPECIFICATION LoopSpec
CONSTANTS
    NodeIds = {n1}
    RuleIds = {r1}
    Ports = {80}
    Protocols = {"tcp"}
    RawPolicies <- MCRawPolicies
    Times = {}
    ReportStates = {"applied", "error"}
    Absent = Absent
    Never = Never
    Nothing = Nothing
    NewRule = NewRule
    Calls = {k1}
    MaxVersion = 1
    MaxTime = 0
    SaveMayFail = FALSE
    Self = n1
    Flags <- Strict
    AgentMayFail = FALSE
    MayReboot = FALSE
INVARIANT ShownRulesRun
