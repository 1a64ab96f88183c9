SPECIFICATION FairSpec
CONSTANTS
    Ips <- MCIps
    NoIp = "none"
    Requests <- MCRequests
    MaxPerIp = 2
    Interval = 1
    Burst = 2
    CleanupEvery = 2
    SweepInterval = 2
    MaxTime = 2
INVARIANTS
    TypeOK
    ConcurrencyBounded
    AllowsExactly
    GrantsConform
PROPERTIES
    RequestEnds
