CONSTANTS
    MaxOut = 3
    MaxCmds = 2
    MaxTraffic = 3
    ScrollOps = {"up", "bottom", "pagedown", "offset0"}
    SinkCapacity = 1
    FileCapacity = 1
    MaxTurns = 1
    MaxText = 1
    Marker = 1
    Flood = 0
    Transcripts = TRUE
SPECIFICATION Spec
CHECK_DEADLOCK FALSE
INVARIANTS
    SessionAccounted
PROPERTIES
    ExitAfterDrain
