CONSTANTS
    MaxRetry = 5
    InitialBackoff = 100
    BackoffCap = 30000
    AutoReconnectModes = {TRUE, FALSE}
    Visual = TRUE
    MaxRx = 2
SPECIFICATION Spec
INVARIANTS
    TypeOK
    NoStrandedData
    BackoffTracksFailures
PROPERTIES
    LossNoticed
