CONSTANTS
    Approvers = {a1}
    Rejecters = {j1}
    Granters = {g1}
    Editors = {e1}
    Revokers = {v1}
    None = None
    MachineList <- TwoMachines
    Target = "m1"
    Logins = {"deploy", "root"}
    GrantTypes = {"ssh", "both", "rdp"}
    MaxGrants = 2
    MaxEvents = 2
    ExplainRequests = 1
    EffectiveMachines = 1
    CapRequests = 1
    CapSessions = 1
    CapMachines = 1
    CatalogLimit = 2
    Cap = 1
    Asks <- SomeAsks
    Hours = {0, 1}
    AutoRules <- SomeAutoRules
    EscalateRules <- SomeEscalateRules
    Operator = op
    Admin = adm
    MaxEdits = 2
    NoPolicy = NoPolicy

SPECIFICATION AccessSpec

INVARIANT GrantsAreKept
INVARIANT ViewsAgree
INVARIANT RoutingIsSafe
PROPERTY DecisionStands

CHECK_DEADLOCK FALSE
