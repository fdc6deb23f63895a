SPECIFICATION Spec
CONSTANTS
    Jobs = {j1}
    Callers = {c1}
    Reaper = reaper
    Closer = closer
    MaxActive = 1
    MaxHistory = 1
    Slots = 1
    MaxFaults = 0
INVARIANTS
    ShutdownLeavesNothing
CHECK_DEADLOCK FALSE
