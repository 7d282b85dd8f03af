SPECIFICATION LeaseSpec
CONSTANTS
    Claims = {c1, c2}
    Steps = {s1}
    Addrs = {a1, a2}
    Ips = {}
    Subnets = {}
    Nets = {taz}
    NoBucket = NoBucket
    NoRow = NoRow
    Nobody = Nobody
    NoRequest = NoRequest
    Cooldown = 1
    Day = 1
    Grace = 1
    MaxStale = 1
    Residence = 1
    LeaseMargin = 1
    MaxPending = 2
    IpDailyMax = 1
    SubnetDailyMax = 1
    Amount <- MCAmount
    DailyCap <- MCDailyCap
    BlindNets = {}
    OpMax = 1
    AsyncLedger = FALSE
    MaxExits = 0
    MaxClock = 4
    OpTimeout = 3
    RpcTimeout = 2
    PollEvery = 2
CONSTRAINT ClockBound
SYMMETRY ClaimAddrSymmetry
INVARIANTS WithinWorstCase
PROPERTIES ImplementsLedger ImplementsSender
CHECK_DEADLOCK FALSE
