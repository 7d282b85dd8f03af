SPECIFICATION DeploySpec
CONSTANTS
    MaxMain = 3
    BackoffAfter = 1
    Backoff = 1
    PendingMax = 1
    Reverts = TRUE
    Declines = FALSE
    MaxFaults = 0
PROPERTIES RecordedIsInstalled
CHECK_DEADLOCK FALSE
