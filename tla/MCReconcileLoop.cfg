CONSTANTS
    MaxChanges <- MCMaxChanges
    MaxFailures <- MCMaxFailures
    MaxStopCalls <- MCMaxStopCallsTwice
    BackoffInterval <- MCBackoffInterval
SPECIFICATION Spec
INVARIANTS
    TypeOK
    NoLostWakeup
    ReconcileInv
PROPERTY
    EventuallyApplied
    ProviderSpec
CHECK_DEADLOCK FALSE
