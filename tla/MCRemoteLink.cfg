SPECIFICATION Spec
CONSTANTS
    r1 = r1
    r2 = r2
    Rigs = {r1, r2}
    Default = r2
    Names = {"hf", "any"}
    RigIds <- PairIds
    DefaultName = "elsewhere"
    Selectable = {"hf"}
    MaxRequests = 2
    MaxFaults = 1
INVARIANTS
    LinkInv
PROPERTY NeverBackInTime
CHECK_DEADLOCK FALSE
