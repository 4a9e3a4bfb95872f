SPECIFICATION Spec
CONSTANTS
    Horizon = 8
    MaxArrivals = 6
    RateDelay = 3
    BurstInterval = 1
    FastInterval = 2
    DropInterval = 2
    AddFrontInterval = 2
    Allowed = 2
    AllowedInBurst = 4
    BurstMids = 4
    FrontFactor = 4
PROPERTIES
    FastMeansDrop
CHECK_DEADLOCK FALSE
