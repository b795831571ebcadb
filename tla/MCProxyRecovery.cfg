\* A short request overtakes a longer one of its session, which arrived first and is then faulted.
CONSTANTS
    r1 = r1
    r2 = r2
    r3 = r3
    Requests = {r1, r2}
    MaxLlmCalls = 2
    MaxCostUsd = 0
    MaxU64 = 3
    Costs = {2}
    NoCost = NoCost
    Sessions = {"A", "B"}
    Inputs <- RaceInputs
    Scenarios = {"force_500"}
    UpstreamStatuses = {200}
    NoFault = NoFault
    NoSession = NoSession
    NoInput = NoInput
    NoFile = NoFile
    NoSnapshot = NoSnapshot
SPECIFICATION Spec
INVARIANTS RecoveryIsLater
CHECK_DEADLOCK FALSE
