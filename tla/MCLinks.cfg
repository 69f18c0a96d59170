SPECIFICATION LinksSpec
CONSTANTS
    r1 = r1
    r2 = r2
    Rigs = {r1, r2}
    Default = r2
    Names = {"any"}
    RigIds <- MCRigIds
    DefaultName = "any"
    Selectable = {}
    MaxRequests = 1
    MaxFaults = 2
    Ids <- MCIds
    HiddenIds = {"h"}
    Freqs = {1, 2}
    Decs = {{}, {"ft8"}}
    None = None
    First <- MCFirst
    Capacity = 2
    MaxChanges = 2
    MaxBreaks = 1
INVARIANT AudioInv
PROPERTIES
    RequestAnswered
    LinkCatchesUp
    InTheEndServed
CHECK_DEADLOCK FALSE
