SPECIFICATION FairSpec
CONSTANTS
    HandshakeTimeout = 4
    ConnectTimeout = 4
    ProxyTimeout = 2
CHECK_DEADLOCK FALSE
INVARIANTS
    OneVerdictInKind
    SuccessMeansTunnel
    FailureIsTold
    DnsAsConfigured
PROPERTY HandshakeEnds
