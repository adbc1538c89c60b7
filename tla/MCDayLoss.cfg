SPECIFICATION FairSpec
CONSTANTS
    DaySetups <- MCLossOnly
    CAP = 2
    GOAL = 2
    INSANE = 3
    MAX_TRADES_PER_DAY = 2
    MAX_ORDERS_PER_DAY = 3
    PnLs <- MCPnLs
    MaxRows = 3
CHECK_DEADLOCK FALSE
PROPERTIES CapIsKept
