CONSTANTS
    MaxOut = 2
    MaxCmds = 1
    MaxTraffic = 3
    ScrollOps = {"up"}
    SinkCapacity = 1
    FileCapacity = 1
    MaxTurns = 1
    MaxText = 1
    Marker = 1
    Flood = 1
    Transcripts = FALSE
SPECIFICATION FairSpec
CHECK_DEADLOCK FALSE
PROPERTIES
    ClosedLocalEnds
    OutputShown
