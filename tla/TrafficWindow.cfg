SPECIFICATION WindowSpec
CONSTANTS
    MaxConnections = 2
    Retention = 1
    CleanupEvery = 1
    MaxId = 3
    TopN = 1
INVARIANTS
    OrderMatchesConnections
    WithinCapacity
    
PROPERTIES
    SurvivorsKeepOrder
    RowsLeaveForAReason
    GoneIsGone
