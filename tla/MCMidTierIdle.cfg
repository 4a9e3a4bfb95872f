SPECIFICATION SpecPolls
CONSTANTS
    Slots = {m1, m2}
    MaxQueue = 1
    MidFactor = 4
    BurstMids = 1
    Master = master
    MaxOverlaps = 1
    BootOutlasts = TRUE
PROPERTIES
    LeavesOnlyAfterNulls
CHECK_DEADLOCK FALSE
