SPECIFICATION Spec
CONSTANTS
    Requests = {q1}
    Calls = {"delete", "status"}
    MaxFaults = 1
INVARIANTS
    TypeOK
    ReleasedIsJoined
    NoTorResurrection
PROPERTIES
    RevokedForGood
CHECK_DEADLOCK FALSE
