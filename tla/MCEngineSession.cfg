SPECIFICATION SpecSession
CONSTANTS
    SessionSetups <- MCSessionSetups
    MaxSessions = 4
INVARIANTS
    SessionTypeOK
    LeakNeedsTwoStarts
PROPERTIES
    TokenIsTried
    CooldownEnds
    ConnectedIsReconciled
CHECK_DEADLOCK FALSE
