SPECIFICATION PageAudioSpec
CONSTANTS
    PageRigs = {"x", "y"}
    ActiveRig = "x"
    MaxSockets = 1
    MaxPrompts = 1
    MaxUpsets = 0
INVARIANT LeavingReleases
CHECK_DEADLOCK FALSE
