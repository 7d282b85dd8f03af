SPECIFICATION Spec
CONSTANTS
    Claims = {c1, c2}
    Steps = {}
    Addrs = {a1, a2}
    Ips = {}
    Subnets = {}
    Nets = {taz}
    NoBucket = NoBucket
    NoRow = NoRow
    Nobody = Nobody
    NoRequest = NoRequest
    Cooldown = 4
    Day = 4
    Grace = 1
    MaxStale = 1
    Residence = 1
    LeaseMargin = 1
    MaxPending = 1
    IpDailyMax = 1
    SubnetDailyMax = 1
    Amount <- MCAmount
    DailyCap <- MCDailyCap
    BlindNets = {}
    OpMax = 2
    AsyncLedger = TRUE
    MaxExits = 1
    MaxClock = 6
CONSTRAINT ClockBound
SYMMETRY ClaimAddrSymmetry
INVARIANTS TypeOK PaymentsApart RepliesAreTrue DrainLosesNothingSettled
CHECK_DEADLOCK FALSE
