SPECIFICATION Spec
CONSTANTS
    MaxOps = 3
    MaxFaults = 2
    Actors <- MCActors
INVARIANTS
    TypeOK
    NothingIsForgotten
    NotStuck
    DrainedIsGone
    MonitorOwnsWhatItStops
PROPERTIES
    ClosingNeverConnects
    DisconnectStopsStartup
    LastGoodWasUp
CHECK_DEADLOCK FALSE
