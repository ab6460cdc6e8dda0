SPECIFICATION Spec
SYMMETRY Symmetry
CONSTANTS
    NConns = 2
    Ports = {p1, p2}
    Processes = {a, b}
    Elsewhere = Elsewhere
    None = None
    Capacity = 1
    TTL = 1
    Traced = TRUE
INVARIANTS   EventHeals
PROPERTY EvictionIsByAge
CHECK_DEADLOCK FALSE
