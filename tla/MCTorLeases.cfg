SPECIFICATION FairSpec
CONSTANTS
    Requests = {q1}
    Calls = {"delete", "status"}
    MaxFaults = 1
INVARIANTS
    ReleasedIsJoined
PROPERTIES
    RevokedForGood
    RevokedIsReleased
CONSTRAINT TwoStops
CHECK_DEADLOCK FALSE
