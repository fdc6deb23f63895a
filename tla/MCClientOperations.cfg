SPECIFICATION FairSpec
CONSTANTS
    MaxOps = 2
    MaxFaults = 2
    Actors <- MCActors
INVARIANTS
    NothingIsForgotten
PROPERTIES
    ClosingNeverConnects
    DisconnectStopsStartup
    ShutdownDrains
CHECK_DEADLOCK FALSE
