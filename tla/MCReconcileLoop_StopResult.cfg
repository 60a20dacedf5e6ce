CONSTANTS
    MaxChanges <- MCMaxChanges
    MaxFailures <- MCMaxFailures
    MaxStopCalls <- MCMaxStopCallsTwice
    BackoffInterval <- MCBackoffInterval
SPECIFICATION Spec
INVARIANT
    StopReportsSuccess
CHECK_DEADLOCK FALSE
