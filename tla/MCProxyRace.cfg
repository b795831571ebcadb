\* Three requests race for two calls and for a spend cap that one commit reaches.
CONSTANTS
    r1 = r1
    r2 = r2
    r3 = r3
    Requests = {r1, r2, r3}
    MaxLlmCalls = 2
    MaxCostUsd = 2
    MaxU64 = 3
    Costs = {2}
    NoCost = NoCost
    Sessions = {"A", "B"}
    Inputs <- RaceInputs
    Scenarios = {"force_500"}
    UpstreamStatuses = {200}
    NoFault = NoFault
    NoSession = NoSession
    NoInput = NoInput
    NoFile = NoFile
    NoSnapshot = NoSnapshot
SPECIFICATION Spec
SYMMETRY Symmetric
INVARIANTS UpstreamWithinCap RealTimeOrder ReportMatchesBudget
CHECK_DEADLOCK FALSE
