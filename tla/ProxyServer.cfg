SPECIFICATION Spec
SYMMETRY Symmetry
CONSTANTS
    Conns = {c1, c2, c3}
    MaxPermits = 2
    HandshakeTimeout = 1
    MaxConnections = 2
    Retention = 1
    CleanupEvery = 2
    MaxId = 3
INVARIANTS
    ServerTypeOK
    LiveRowsHoldPermits
    RowsTellTheTruth
PROPERTIES
    TerminalStatusIsFinal
    
