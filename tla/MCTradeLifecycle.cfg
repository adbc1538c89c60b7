SPECIFICATION FairSpec
CONSTANTS
    Setups <- MCSetups
    MaxOrders = 7
    TARGET_REPLACE_MAX = 1
    PANIC_EXIT_MAX_RETRIES = 1
INVARIANTS
    TypeOK
    OneStopLoss
    OnePanicExit
PROPERTIES
    ClosesOnlyFlat
    ExposureEnds
    FlipIsNoticed
