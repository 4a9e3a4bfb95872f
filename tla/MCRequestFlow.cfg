SPECIFICATION Spec
CONSTANTS
    Requests = {r1, r2}
    Master = master
    FirstMid = mid1
    FirstFront = front1
    MoreMids = {}
    MoreFronts = {front2}
    MidFactor = 0
    FrontFactor = 0
    ShortLimit = 0
    Allowed = 1
    AllowedInBurst = 2
    MaxFailures = 1
    NoRequest = NoRequest
    NoFront = NoFront
SYMMETRY Symmetry
INVARIANTS
    TypeOK
    OnePlace
    BalancerListsLive
PROPERTIES
    ImplementsService
    RefusedOnlyInGap
CHECK_DEADLOCK FALSE
