SPECIFICATION FairSpec
CONSTANTS
    Jobs = {j1}
    Callers = {c1, c2}
    Reaper = reaper
    Closer = closer
    MaxActive = 1
    MaxHistory = 1
    Slots = 1
    MaxFaults = 1
INVARIANTS
    OfferedIsIntact
    CleanTerminalUnlessMasked
PROPERTIES
    CancelWins
    WithdrawnIsCleaned
CONSTRAINT TwoCleaners
CHECK_DEADLOCK FALSE
