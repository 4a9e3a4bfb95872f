SPECIFICATION FairSpec
CONSTANTS
    Requests = {r1, r2}
    Master = master
    FirstMid = mid1
    FirstFront = front1
    MoreMids = {}
    MoreFronts = {}
    MidFactor = 0
    FrontFactor = 0
    ShortLimit = 0
    Allowed = 1
    AllowedInBurst = 2
    MaxFailures = 0
    NoRequest = NoRequest
    NoFront = NoFront
PROPERTIES
    CollectedByFrontServers
CHECK_DEADLOCK FALSE
