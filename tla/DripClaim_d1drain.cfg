SPECIFICATION Spec
CONSTANTS
    Claims = {c1, c2}
    Steps = {}
    Addrs = {a1, a2}
    Ips = {}
    Subnets = {}
    Nets = {taz}
    NoBucket = NoBucket
    NoRow = NoRow
    Nobody = Nobody
    NoRequest = NoRequest
    Cooldown = 1
    Day = 1
    Grace = 1
    MaxStale = 1
    Residence = 1
    LeaseMargin = 1
    MaxPending = 1
    IpDailyMax = 1
    SubnetDailyMax = 1
    Amount <- MCAmount
    DailyCap <- MCDailyCap
    BlindNets = {}
    OpMax = 1
    AsyncLedger = TRUE
    MaxExits = 1
    MaxClock = 5
CONSTRAINT ClockBound
SYMMETRY ClaimAddrSymmetry
INVARIANTS DrainLosesNothing
CHECK_DEADLOCK FALSE
