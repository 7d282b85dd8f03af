SPECIFICATION WatchdogSpec
CONSTANTS
    MaxBlock = 5
    Setback = 1
    LagFloor = 0
    Margin = 1
    AheadLimit = 1
    RefDepth = 2
    SettleBlocks = 2
    StallSweeps = 0
    NodeHealMax = 2
    ClearAfter = 1
    DropAfter = 2
    MinerHealMax = 1
    Agreements = {2}
    MaxMishaps = 1
    Nil = Nil
PROPERTIES ComparesWhatIsKept
CHECK_DEADLOCK FALSE
