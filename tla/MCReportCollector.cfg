\* Four kinds of records cover a fault, its recovery, a second fault and a foreign success; two Shutdown
\* events cover the one that the drain loop meets.
CONSTANTS
    NoFault = NoFault
    NoSession = NoSession
    NoCost = NoCost
    NoSnapshot = NoSnapshot
    MaxU64 = 3
    Records <- MCRecords
    Snapshots <- MCSnapshots
    MaxSent = 3
    MaxShutdowns = 2
SPECIFICATION Spec
INVARIANTS Conserved SequenceDense FirstShutdownWins TotalsAgree
PROPERTIES NothingLeftBehind SessionsIsolated RecoveryKept ShutdownFlushes
CHECK_DEADLOCK FALSE
