SPECIFICATION FairSpec
CONSTANTS
    TrailSetups <- MCTrailSetups
    MaxPrice = 8
    MaxOrders = 3
    ENTRY = 5
    INITIAL_STOP = 1
    TierOf <- MCTierOf
    FloorOf <- MCFloorOf
    ALC_STOP <- MCAlcStop
    TIGHTEN_TIER = 2
    DYN_STEP_TICKS = 2
    ALC_MAX_RETRIES = 1
    KITE_MAX_MODIFICATIONS_PER_ORDER = 2
CHECK_DEADLOCK FALSE
INVARIANTS TypeOK RowPromisesNoMore OneStopWorks
PROPERTIES NakedIsNoticed
