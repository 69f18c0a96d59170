SPECIFICATION Spec
CONSTANTS
    Conns = {c1, c2}
    MaxRequests = 2
    MaxArrivals = 4
    Capacity = 2
    Outcomes = {"ok"}
SYMMETRY Symmetric
INVARIANTS
    QueueInv
    OrderedUnlessCoalesced
PROPERTY ImplementsService
CHECK_DEADLOCK FALSE
