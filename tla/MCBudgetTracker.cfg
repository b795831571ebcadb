\* Four requests race for three calls; the first cost can reach the spend cap on its own,
\* two costs of 2 pass MaxU64.
CONSTANTS
    r1 = r1
    r2 = r2
    r3 = r3
    r4 = r4
    Requests = {r1, r2, r3, r4}
    MaxLlmCalls = 3
    MaxCostUsd = 2
    MaxU64 = 3
    Costs = {1, 2}
    NoCost = NoCost
SPECIFICATION FairSpec
INVARIANTS TypeOK CallCapHeld PermitsDistinct NoLostCost RefusalJustified
PROPERTIES LateRequestsRefused OperationsReturn ImplementsLedger
CHECK_DEADLOCK FALSE
