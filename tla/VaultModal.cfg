CONSTANTS
    Windows = {1, 2}
    MaxJobs = 2
    Chars = {"a", "b"}
    MaxText = 2
    Label <- MCLabel
    Hint <- MCHint
    Span = 1
    Chord <- MCChord
    Override <- MCOverride
    Custom <- MCCustom
    Scopes <- MCTyping
SPECIFICATION FairSpec
CHECK_DEADLOCK FALSE
PROPERTIES
    IncompleteIsTrue
