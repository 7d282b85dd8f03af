SPECIFICATION VisitSpec
CONSTANTS
    Posts = {p1, p2, p3}
    Challenges = {s1, s2}
    Ttl = 2
    MaxCrashes = 1
    MaxClock = 3
    hosh = hosh
    direct = direct
    Claims = {c1}
    Hosh = hosh
    Direct = direct
    Honest = {direct}
    Limit <- EvenLimit
    MinAttemptGap = 1
    StaleAfter = 0
    MaxAge = 1
    LagBudget = 0
    WalletBudget = 0
    MaxTip = 4
    Pending = Pending
    Nothing = Nothing
    Askers = {k1}
    Visitors = {w1, w2}
    Page = Page
    AttemptLimit = 1
    ClaimAttempts = 2
    Stall = 3
    RefreshAfter = 0
    StatusMaxAge = 1
    ReferenceAge = 1
    MaxHeight = 2
    Unknown = Unknown
    Pasted = {a1}
    Made = {g1}
    Jobs = {j1, j2}
    RetryCap = 2
    HoldMax = 2
    None = None
    taz = taz
    ctaz = ctaz
    Nets = {taz, ctaz}
    Deadline = 1
    Floor = 1
    Slack = 0
    MaxQueue = 1
    MaxLive <- FewRecords
    Reasons = {behind}
    Schemas = {v1, v2}
    Submitting = TRUE
    MaxCounted = 1
    StallAge = 1
    HealMax = 1
    Absent = Absent
    MaxMain = 3
    BackoffAfter = 1
    Backoff = 1
    PendingMax = 1
    Reverts = FALSE
    Declines = FALSE
    MaxFaults = 1
    MaxBlock = 3
    Setback = 1
    LagFloor = 1
    Margin = 1
    AheadLimit = 1
    RefDepth = 0
    SettleBlocks = 1
    StallSweeps = 1
    NodeHealMax = 3
    ClearAfter = 2
    DropAfter = 2
    MinerHealMax = 1
    Agreements <- SilentOrWide
    MaxMishaps = 1
    Nil = Nil
CONSTRAINT ClockBound
INVARIANTS VisitTypeOK OneClaimWhileItLives ReplayIsReal AskedInFull SubmissionsAreSound NullMeansAFailedRead RewindsAreBudgeted
PROPERTIES ServedNearTheTip StallsAreJudged HoldIsKept VerdictIsItsOwn NoCountIsLost RecordedIsInstalled TwoMeansServing MinerRestsThroughTheHeal
CHECK_DEADLOCK FALSE
