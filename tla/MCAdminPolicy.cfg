SPECIFICATION AdminFairSpec
CONSTANTS
    Peers = {p1, p2}
    Ids = {}
    Ports = {}
    Reserved = {}
    MaxFaults = 1
    MaxRestarts = 2
INVARIANTS
    PolicyIsEnforced
    RevokedStaysBlocked
PROPERTIES
    RevocationIsFinal
    OnlyRevokedIsCut
    RevokedPeerGoesAway
