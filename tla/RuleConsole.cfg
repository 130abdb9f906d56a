SPECIFICATION ConsoleSpec
CONSTANTS
    NodeIds = {n1}
    RuleIds = {r1}
    Ports = {80}
    Protocols = {"tcp"}
    RawPolicies <- MCRawPolicies
    Times = {}
    ReportStates = {}
    Absent = Absent
    Never = Never
    Nothing = Nothing
    NewRule = NewRule
    Calls = {k1, k2}
    MaxVersion = 2
    MaxTime = 0
    SaveMayFail = FALSE
INVARIANTS ConsoleTypeOK FreshShowsOwnSaves
PROPERTIES SaveIsShown ConsoleReadsItsWrites
