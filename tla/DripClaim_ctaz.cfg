SPECIFICATION Spec
CONSTANTS
    Claims = {c1, c2}
    Steps = {}
    Addrs = {a1}
    Ips = {}
    Subnets = {}
    Nets = {ctaz}
    NoBucket = NoBucket
    NoRow = NoRow
    Nobody = Nobody
    NoRequest = NoRequest
    Cooldown = 5
    Day = 5
    Grace = 1
    MaxStale = 1
    Residence = 1
    LeaseMargin = 1
    MaxPending = 2
    IpDailyMax = 1
    SubnetDailyMax = 1
    Amount <- MCAmount
    DailyCap <- MCDailyCap
    BlindNets = {ctaz}
    OpMax = 2
    AsyncLedger = FALSE
    MaxExits = 0
    MaxClock = 6
CONSTRAINT ClockBound
SYMMETRY ClaimSymmetry
INVARIANTS ReleasedMeansUnpaid
CHECK_DEADLOCK FALSE
