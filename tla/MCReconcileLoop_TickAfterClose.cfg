CONSTANTS
    MaxChanges <- MCMaxChanges
    MaxFailures <- MCMaxFailures
    MaxStopCalls <- MCMaxStopCalls
    BackoffInterval <- MCBackoffInterval
SPECIFICATION Spec
INVARIANT
    TickAfterCloseDoesNoWork
CHECK_DEADLOCK FALSE
