SPECIFICATION FairSpec
CONSTANTS
    MaxSent = 3
    MaxLeftover = 1
    RelayBufSize = 2
    SockCap = 1
    IdleTimeout = 3
    WriteTimeout = 2
    LingerTimeout = 1
CHECK_DEADLOCK FALSE
INVARIANTS
    TypeOK
    StreamIntact
    CountersExact
    EndsForAReason
    LingerArmed
PROPERTIES
    ImplementsTunnel
    RelayEnds
