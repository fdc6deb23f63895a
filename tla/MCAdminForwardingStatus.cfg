SPECIFICATION Spec
CONSTANTS
    Peers = {}
    Ids = {r1}
    Ports = {w1}
    Reserved = {}
    MaxFaults = 0
    MaxRestarts = 0
CONSTRAINT OwnersOnly
PROPERTY StatusKeepsOwners
