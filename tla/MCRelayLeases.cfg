SPECIFICATION FairSpec
CONSTANTS
    p1 = p1 p2 = p2 q1 = q1 q2 = q2 q3 = q3
    Peers = {p1, p2}
    Ports = {"x", "y"}
    Requests = {q1, q2, q3}
    Peer <- MCPeer
    Credential <- MCCredential
    Challenged = {q1, q2}
    TTL = 2
    Lifetime = 2
    MaxAttempts = 1
    MaxTime = 3
    MaxFaults = 1
    MaxEpoch = 2
INVARIANTS
    EngineIsOwned
    OneRelayPerCredential
    NoResurrection
PROPERTIES
    DueIsReaped
CHECK_DEADLOCK FALSE
