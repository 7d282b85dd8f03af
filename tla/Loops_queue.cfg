SPECIFICATION LoopsSpec
CONSTANTS
    Tasks = {t1, t2, t3, t4}
    MaxPending = 2
    HasDeadline = TRUE
    Nobody = Nobody
    Interval = 3
    MaxBackoff = 4
    ShieldCoinbase = TRUE
    MaxFails = 3
    MaxLine = 3
    taz = taz
    Nets = {taz}
    Deadline = 1
    Floor = 1
    Slack = 0
    MaxQueue = 1
    MaxLive <- OneSample
    Solvers = {s1, s2}
    Hashes = {h1, h2}
    MaxMain = 2
    BackoffAfter = 2
    Backoff = 2
    PendingMax = 1
    Reverts = FALSE
    Declines = FALSE
    MaxFaults = 1
    MaxBlock = 2
    Setback = 1
    LagFloor = 0
    Margin = 1
    AheadLimit = 0
    RefDepth = 0
    SettleBlocks = 1
    StallSweeps = 0
    NodeHealMax = 2
    ClearAfter = 1
    DropAfter = 2
    MinerHealMax = 1
    Agreements <- NonePublished
    MaxMishaps = 1
    Nil = Nil
INVARIANTS LoopsTypeOK WalletDiscipline OneStepInside BooksTellTheStep NoStrandedRefill JoinIsClean
PROPERTIES ImplementsSerialWallet EveryoneIsAnswered FruitlessHarvestWaits RefillIsTried DoorFollowsTheSends EverySolveEnds MainIsDeployed MinerIsGivenBack
CHECK_DEADLOCK FALSE
