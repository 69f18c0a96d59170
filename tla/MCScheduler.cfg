SPECIFICATION Spec
CONSTANTS
    Day = 4
    None = None
    Sessions = {s1}
    Handlers = {h1}
    Bookmarks = {"a", "b", "c"}
    Configs <- MCConfigs
    Passes <- MCPasses
    Pretune = 1
    StartMinute = 0
    Horizon = 2
    MaxMoves = 2
    MaxFaults = 1
CHECK_DEADLOCK FALSE
INVARIANTS ScheduleInv RecordingEndsWithTarget
PROPERTY SettlesOnSchedule
