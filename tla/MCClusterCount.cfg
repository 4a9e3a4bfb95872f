SPECIFICATION Spec
CONSTANTS
    MaxVM = 5
    MaxFailures = 0
    Burst <- MCBurst
    BootOutlasts = TRUE
INVARIANT
    VMCountIsTierSize
