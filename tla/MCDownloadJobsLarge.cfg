SPECIFICATION Spec
CONSTANTS
    Jobs = {j1, j2}
    Callers = {c1}
    Reaper = reaper
    Closer = closer
    MaxActive = 1
    MaxHistory = 1
    Slots = 1
    MaxFaults = 1
INVARIANTS
    TypeOK
    OfferedIsIntact
    CleanTerminalUnlessMasked
    WorkspacesBounded
PROPERTIES
    CancelWins
CONSTRAINT InService
CHECK_DEADLOCK FALSE
