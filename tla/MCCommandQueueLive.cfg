SPECIFICATION Spec
CONSTANTS
    Conns = {c1, c2}
    MaxRequests = 2
    MaxArrivals = 3
    Capacity = 1
    Outcomes = {"ok"}
PROPERTIES
    AcceptedRuns
    HandlerReturns
CHECK_DEADLOCK FALSE
