SPECIFICATION WatchdogSpec
CONSTANTS
    MaxBlock = 3
    Setback = 1
    LagFloor = 0
    Margin = 1
    AheadLimit = 1
    RefDepth = 0
    SettleBlocks = 1
    StallSweeps = 0
    NodeHealMax = 2
    ClearAfter = 1
    DropAfter = 2
    MinerHealMax = 1
    Agreements = {2}
    MaxMishaps = 1
    Nil = Nil
INVARIANTS GiveUpIsOfThisStall
CHECK_DEADLOCK FALSE
