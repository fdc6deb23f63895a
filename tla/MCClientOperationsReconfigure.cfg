SPECIFICATION Spec
CONSTANTS
    MaxOps = 2
    MaxFaults = 2
    Actors <- MCActors
INVARIANT NothingToReconfigure
CHECK_DEADLOCK FALSE
