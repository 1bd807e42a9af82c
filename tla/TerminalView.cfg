CONSTANTS
    Ids = {1, 2}
    MaxVal = 1
    MaxEvents = 2
    Screens = {"primary", "alt", "tracking"}
SPECIFICATION PaneFairSpec
CHECK_DEADLOCK FALSE
INVARIANTS
    WindowSound
    SettledWindow
PROPERTY
    OutputPainted
