\* Two requests: a fault and its recovery, a refusal, a cost that reaches the limit of 2.
CONSTANTS
    NoFault = NoFault
    NoSession = NoSession
    NoCost = NoCost
    MaxU64 = 3
    RequestRecords <- MCRecords
    MaxRecords = 2
    MaxTries = 2
    MaxCostUsd = 2
    FailOns <- MCFailOns
    EarlierReport = EarlierReport
    NoFile = NoFile
    PartialFile = PartialFile
SPECIFICATION Spec
INVARIANTS TypeOK VerdictFromEvidence EvidencePublished
PROPERTIES NothingLeftRunning RunReturns
CHECK_DEADLOCK FALSE
