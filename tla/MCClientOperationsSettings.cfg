SPECIFICATION Spec
CONSTANTS
    MaxOps = 2
    MaxFaults = 2
    Actors <- MCActors
INVARIANT SettingsOnlyWhenIdle
CHECK_DEADLOCK FALSE
