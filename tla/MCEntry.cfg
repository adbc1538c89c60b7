SPECIFICATION Spec
CONSTANTS
    Setups <- MCSetups
    MaxTrades = 2
    MaxOrders = 3
INVARIANTS
    TypeOK
    OneEntryWorks
    AdoptedIsAlone
PROPERTIES
    PositionsAreNoticed
