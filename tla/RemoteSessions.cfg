CONSTANTS
    Hosts = {"h1", "h2"}
    MaxAttempts = 2
    MaxAuth = 2
    MaxEvents = 4
SPECIFICATION FairSpec
CHECK_DEADLOCK FALSE
INVARIANTS
    AttemptsSettle
    ListingIsOfPath
PROPERTIES
    AttemptsEnd
