SPECIFICATION FairSpec
CONSTANTS
    Conns = {c1, c2}
    MaxPermits = 2
    HandshakeTimeout = 1
    MaxConnections = 2
    Retention = 1
    CleanupEvery = 2
    MaxId = 2
PROPERTIES
    
    ClosedRowsLeave
