CONSTANTS
    MaxChanges <- MCMaxChanges
    MaxFailures <- MCMaxFailures
    MaxStopCalls <- MCMaxStopCalls
    BackoffInterval <- MCBackoffInterval
SPECIFICATION Spec
INVARIANT
    BackoffResetOnSuccess
CHECK_DEADLOCK FALSE
