SPECIFICATION Spec
CONSTANTS
    WgPeers = {w1}
    AwgPeers = {a1}
    MaxFaults = 2
INVARIANTS
    StatusIsTruthful
