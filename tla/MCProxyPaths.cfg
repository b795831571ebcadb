\* Two requests, each on any path through the handlers, with no spend cap so that models without
\* a price pass.
CONSTANTS
    r1 = r1
    r2 = r2
    r3 = r3
    Requests = {r1, r2}
    MaxLlmCalls = 1
    MaxCostUsd = 0
    MaxU64 = 3
    Costs = {2}
    NoCost = NoCost
    Sessions = {"A", "B"}
    Inputs <- PathInputs
    Scenarios = {"force_429", "malformed_tool_call_json"}
    UpstreamStatuses = {200, 500}
    NoFault = NoFault
    NoSession = NoSession
    NoInput = NoInput
    NoFile = NoFile
    NoSnapshot = NoSnapshot
SPECIFICATION FairSpec
INVARIANTS TypeOK OneRecordEach ReportMatchesBudget CostsAsCharged FaultsAsDecided
PROPERTIES ImplementsLifecycle ShutdownCompletes
CHECK_DEADLOCK FALSE
