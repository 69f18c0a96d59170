SPECIFICATION SocketSpec
CONSTANTS
    Sockets = {q1}
    Sources = {"chan", "rig"}
    Channels = {"chan"}
    Radios = {"r1", "r2"}
    Everything = Everything
    Waits = 0
    MicRoom = 1
    MaxMoves = 4
INVARIANT MicToSelected
CHECK_DEADLOCK FALSE
