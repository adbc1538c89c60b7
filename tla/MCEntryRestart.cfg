SPECIFICATION Spec
CONSTANTS
    Setups <- MCCrash
    MaxTrades = 2
    MaxOrders = 3
INVARIANTS
    OneTradeExposed
