CONSTANTS
    MaxStreams = 2
    MaxSessions = 2
SPECIFICATION FairSpec
INVARIANTS
    NoneLeftBehind
    OldConnectionsEnd
PROPERTIES
    UnheardHubEnds
    DepthNotSilent
CHECK_DEADLOCK FALSE
