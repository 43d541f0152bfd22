CONSTANTS
    HaveTls = TRUE
    Enabled <- AllModules
    CookiePorts = 2
    MaxPieces = 2
    MaxTypes = 2
    ConnTimeout = 1
    ReadTimeout = 2
    TlsExtra = 1
SPECIFICATION FairSpec
INVARIANTS NothingLeaks OneOutcome WorkerIsFreeInTime TlsDataIsTaken
PROPERTIES ResultsEnd
