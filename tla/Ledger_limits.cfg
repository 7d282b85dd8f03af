SPECIFICATION LimitsSpec
CONSTANTS
    Claims = {c1, c2}
    Addrs = {a1, a2}
    Ips = {i1}
    Subnets = {s1}
    Nets = {taz, ctaz}
    NoBucket = NoBucket
    NoRow = NoRow
    Nothing = Nothing
    Hour = 3600
    Cooldown = 4
    Lease = 2
    Day = 3
    Grace = 1
    MaxStale = 1
    IpDailyMax = 1
    SubnetDailyMax = 1
    MaxClock = 8
    AskClock = 2
    Tight = {ctaz}
    Amount <- MCAmount
    DailyCap <- MCDailyCap
CONSTRAINT ClockBound
ACTION_CONSTRAINT AskBound
SYMMETRY RowSymmetry
INVARIANTS AddressSpacing QuantityLimits
PROPERTIES PurgeReleasesNothing UndisturbedIsTrue
CHECK_DEADLOCK FALSE
