SPECIFICATION DeploySpec
CONSTANTS
    MaxMain = 3
    BackoffAfter = 1
    Backoff = 1
    PendingMax = 1
    Reverts = FALSE
    Declines = FALSE
    MaxFaults = 0
INVARIANTS OnlyJudgedCodeRuns
CHECK_DEADLOCK FALSE
