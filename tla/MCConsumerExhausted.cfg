CONSTANTS
    MaxRetry = 5
    InitialBackoff = 100
    BackoffCap = 30000
    AutoReconnectModes = {TRUE}
    Visual = TRUE
    MaxRx = 2
SPECIFICATION Spec
INVARIANT
    ExhaustedOnlyAfterFailures
