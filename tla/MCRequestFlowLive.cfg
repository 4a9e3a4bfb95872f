SPECIFICATION FairSpec
CONSTANTS
    Requests = {r1}
    Master = master
    FirstMid = mid1
    FirstFront = front1
    MoreMids = {mid2}
    MoreFronts = {}
    MidFactor = 0
    FrontFactor = 0
    ShortLimit = 0
    Allowed = 1
    AllowedInBurst = 2
    MaxFailures = 1
    NoRequest = NoRequest
    NoFront = NoFront
PROPERTIES
    AnsweredOrLost
    MidTierNeverReturns
CHECK_DEADLOCK FALSE
