SPECIFICATION MinerSpec
CONSTANTS
    Reasons = {behind}
    Schemas = {v1}
    Submitting = FALSE
    MaxCounted = 1
    StallAge = 1
    HealMax = 1
    Absent = Absent
PROPERTIES WaitingIsLeftAlone
CHECK_DEADLOCK FALSE
