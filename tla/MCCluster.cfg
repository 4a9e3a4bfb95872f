SPECIFICATION FairSpec
CONSTANTS
    MaxVM = 4
    MaxFailures = 1
    Burst <- MCBurst
    BootOutlasts = TRUE
INVARIANTS
    TypeOK
    CountExactUnlessRaced
    EndedIsUnregistered
    ServingIsRegistered
    DecrementsExclusive
    SecondVMIsMid
    StartedIsRegistered
    KnownWhenAsked
    FrontRaceNeedsDeparture
PROPERTIES
    StartedServes
    LeavingEnds
    ImplementsRegistry
CHECK_DEADLOCK FALSE
