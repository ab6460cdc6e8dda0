SPECIFICATION Spec
CONSTANTS
    Addresses <- MCAddresses
    Networks <- MCNetworks
    Version6 <- MCVersion6
    Inputs <- MCInputs
    HeaderMax = 4
    UserMax = 1
    DomainMax = 2
    SocksMax = 5
    ReadSize = 3
CHECK_DEADLOCK FALSE
INVARIANTS
    SameHoweverCut
    RoutedAlike
